---- MODULE Spec2Model ----
(***************************************************************************)
(* Model of the Telegram file-to-link bot: src/main.py (handlers, upload   *)
(* to GoFile, the in-process record map) and src/database.py (the durable  *)
(* MongoDB record store).                                                  *)
(*                                                                         *)
(* Byte counts go up to 3*10^9, beyond the 32-bit integers of the model    *)
(* checker, so a byte count n is kept as the pair [kib, rem] with          *)
(* n = kib * 1024 + rem and 0 <= rem < 1024 (Python integers are           *)
(* unbounded; every comparison and division below is exact).               *)
(*                                                                         *)
(* Clock readings are offsets from a base instant that is a multiple of    *)
(* 1000 seconds, in milliseconds: time.time() is nowMs / 1000.  The base   *)
(* instant matters only where the seconds themselves are hashed            *)
(* (store_file_info): there it is BaseInstant.                             *)
(***************************************************************************)
EXTENDS Integers, Sequences, FiniteSets, TLC

(***************************************************************************)
(* Byte counts                                                             *)
(***************************************************************************)
KiB == 1024

Bytes(kib, rem) == [kib |-> kib, rem |-> rem]

\* a > b on byte counts
BytesGT(a, b) == a.kib > b.kib \/ (a.kib = b.kib /\ a.rem > b.rem)

\* a < b on byte counts
BytesLT(a, b) == BytesGT(b, a)

\* a <= b on byte counts
BytesLE(a, b) == ~BytesGT(a, b)

\* size // (1024 * 1024)
WholeMiB(size) == size.kib \div KiB

(***************************************************************************)
(* format_file_size: the number printed with one decimal is kept as a      *)
(* count of tenths.  size / unit is exact in binary floating point (unit   *)
(* is a power of two), so "%.1f" rounds the exact quotient to the nearest  *)
(* tenth, an exact tie going to the even tenth.                            *)
(***************************************************************************)
\* round(num / den * 10) for 0 <= num, with ties to even
RoundTenths(num, den) ==
    LET q == (num * 10) \div den
        r == (num * 10) % den
    IN  IF 2 * r > den THEN q + 1
        ELSE IF 2 * r = den THEN q + (q % 2)
        ELSE q

format_file_size(size) ==
    IF size.kib = 0
    THEN [unit |-> "B", tenths |-> size.rem * 10]
    ELSE IF size.kib < KiB
    THEN \* size / 1024 = kib + rem / 1024
         [unit |-> "KB", tenths |-> size.kib * 10 + RoundTenths(size.rem, KiB)]
    ELSE IF size.kib < KiB * KiB
    THEN \* size / 1024^2 = (kib * 1024 + rem) / 1024^2, below 2^30 bytes
         [unit |-> "MB",
          tenths |-> (size.kib \div KiB) * 10
                       + RoundTenths((size.kib % KiB) * KiB + size.rem, KiB * KiB)]
    ELSE \* size / 1024^3 = whole + (restKib * 1024 + rem) / 2^30.  Ten times
         \* the fraction is q + (r * 1024 + 10 * rem) / 2^30 with
         \* q = 10 * restKib \div 2^20 and r = 10 * restKib % 2^20.
         LET whole == size.kib \div (KiB * KiB)
             restKib == size.kib % (KiB * KiB)
             q == (restKib * 10) \div (KiB * KiB)
             r == (restKib * 10) % (KiB * KiB)
             extra == (r * KiB + 10 * size.rem) \div (KiB * KiB * KiB)
             rr == (r * KiB + 10 * size.rem) % (KiB * KiB * KiB)
             qq == q + extra
             half == (KiB * KiB * KiB) \div 2
             t == IF rr > half THEN qq + 1
                  ELSE IF rr = half THEN qq + (qq % 2)
                  ELSE qq
         IN  [unit |-> "GB", tenths |-> whole * 10 + t]

(***************************************************************************)
(* upload_to_gofile, the timeout of the upload POST                        *)
(***************************************************************************)
TimeoutFloor == 300
TimeoutCeiling == 1800
SecondsPerMiB == 15

Min(a, b) == IF a < b THEN a ELSE b
Max(a, b) == IF a > b THEN a ELSE b

\* a timeout without the floor of 300 seconds
UploadTimeout_NoFloor(size) ==
    Min(TimeoutCeiling, WholeMiB(size) * SecondsPerMiB)

\* min(1800, max(300, file_size // (1024 * 1024) * 15))
UploadTimeout(size) ==
    Min(TimeoutCeiling, Max(TimeoutFloor, WholeMiB(size) * SecondsPerMiB))

(***************************************************************************)
(* base64.b64encode(file_id[-10:].encode()).decode()[:6]                   *)
(* A file id is a sequence of ASCII codes; a hash is a sequence of         *)
(* one-character strings.                                                  *)
(***************************************************************************)
B64Alphabet ==
    << "A","B","C","D","E","F","G","H","I","J","K","L","M","N","O","P",
       "Q","R","S","T","U","V","W","X","Y","Z","a","b","c","d","e","f",
       "g","h","i","j","k","l","m","n","o","p","q","r","s","t","u","v",
       "w","x","y","z","0","1","2","3","4","5","6","7","8","9","+","/" >>

\* s[-n:]
LastN(s, n) == IF Len(s) <= n THEN s ELSE SubSeq(s, Len(s) - n + 1, Len(s))

\* s[:n]
FirstN(s, n) == IF Len(s) <= n THEN s ELSE SubSeq(s, 1, n)

ByteAt(bytes, i) == IF i <= Len(bytes) THEN bytes[i] ELSE 0

Pow64(e) == IF e = 0 THEN 1 ELSE IF e = 1 THEN 64 ELSE IF e = 2 THEN 4096 ELSE 262144

B64Encode(bytes) ==
    LET n == Len(bytes)
        groups == (n + 2) \div 3
        CharAt(k) ==
            LET j == (k - 1) \div 4
                p == (k - 1) % 4
                v == ByteAt(bytes, 3 * j + 1) * 65536
                       + ByteAt(bytes, 3 * j + 2) * 256
                       + ByteAt(bytes, 3 * j + 3)
            IN  IF (p = 2 /\ 3 * j + 2 > n) \/ (p = 3 /\ 3 * j + 3 > n)
                THEN "="
                ELSE B64Alphabet[((v \div Pow64(3 - p)) % 64) + 1]
    IN  [k \in 1..(4 * groups) |-> CharAt(k)]

HashTail == 10
HashLen == 6

FileHash(file_id) == FirstN(B64Encode(LastN(file_id, HashTail)), HashLen)

(***************************************************************************)
(* generate_professional_links (the second definition, which is the one    *)
(* bound at run time).  A file name is a sequence of one-character         *)
(* strings.                                                                *)
(***************************************************************************)
\* file_name.replace(' ', '+').replace('(', '%28').replace(')', '%29')
RECURSIVE CleanFilename(_)
CleanFilename(name) ==
    IF name = << >> THEN << >>
    ELSE LET c == Head(name)
             out == IF c = " " THEN << "+" >>
                    ELSE IF c = "(" THEN << "%", "2", "8" >>
                    ELSE IF c = ")" THEN << "%", "2", "9" >>
                    ELSE << c >>
         IN  out \o CleanFilename(Tail(name))

generate_professional_links(unique_id, file_hash, file_name) ==
    LET clean == CleanFilename(file_name)
    IN  [stream |-> [base |-> "http://stream.pro-tg-bot.com/watch/",
                     id |-> unique_id, name |-> clean, hash |-> file_hash],
         download |-> [base |-> "http://stream.pro-tg-bot.com/",
                       id |-> unique_id, name |-> clean, hash |-> file_hash],
         alt_stream |-> [base |-> "https://tg-stream.herokuapp.com/stream/",
                         id |-> unique_id, name |-> clean, hash |-> file_hash],
         alt_download |-> [base |-> "https://tg-download.herokuapp.com/file/",
                           id |-> unique_id, name |-> clean, hash |-> file_hash],
         hash |-> file_hash,
         id |-> unique_id]

(***************************************************************************)
(* Inputs: the files users send, and the clock readings                    *)
(***************************************************************************)
\* "AxkD-report", "AxkE-movie": platform file ids, as ASCII codes
FileIdA == << 66, 81, 65, 67, 65, 103, 81, 65, 65, 120, 107, 68 >>
FileIdB == << 67, 103, 65, 67, 65, 103, 85, 65, 65, 120, 107, 69 >>
FileIdC == << 66, 65, 65, 68, 66, 65, 65, 68, 71, 81, 65, 68 >>

\* What get_file_info returns for the inbound message: file_id is the
\* platform file id (has_id FALSE: the file object carries no file id),
\* server_path is what the platform's getFile answers for this file id
\* (<< >>: no path).
Files ==
    << [file_id |-> FileIdA, has_id |-> TRUE, file_unique_id |-> "uA",
        name |-> << "a", " ", "(", "1", ")" >>, type |-> "Document",
        size |-> Bytes(10240, 0), server_path |-> << "documents/file_1" >>],
       [file_id |-> FileIdB, has_id |-> TRUE, file_unique_id |-> "uB",
        name |-> << "m", ".", "m", "p", "4" >>, type |-> "Video",
        size |-> Bytes(1953125, 1), server_path |-> << >>],
       [file_id |-> FileIdC, has_id |-> TRUE, file_unique_id |-> "uC",
        name |-> << "v", ".", "m", "p", "4" >>, type |-> "Video",
        size |-> Bytes(2097152, 0), server_path |-> << "videos/file_3" >>],
       [file_id |-> FileIdC, has_id |-> TRUE, file_unique_id |-> "uC",
        name |-> << "v", ".", "m", "p", "4" >>, type |-> "Video",
        size |-> Bytes(2097152, 1), server_path |-> << "videos/file_3" >>],
       [file_id |-> FileIdB, has_id |-> TRUE, file_unique_id |-> "uB",
        name |-> << "m", ".", "m", "p", "4" >>, type |-> "Video",
        size |-> Bytes(2929687, 512), server_path |-> << >>],
       [file_id |-> << >>, has_id |-> FALSE, file_unique_id |-> "uD",
        name |-> << "d" >>, type |-> "Document",
        size |-> Bytes(1, 0), server_path |-> << >>] >>

FileIdx == 1..Len(Files)

\* The instants at which the clock is read, as [sec, ms] past the base
\* instant, in increasing order.
Readings ==
    << [sec |-> 0, ms |-> 0],
       [sec |-> 0, ms |-> 1],
       [sec |-> 1000, ms |-> 1],
       [sec |-> 86400, ms |-> 0],
       [sec |-> 86401, ms |-> 0],
       [sec |-> 2592000, ms |-> 0],
       [sec |-> 2592001, ms |-> 1] >>

\* instants compare by seconds, then milliseconds
TimeLT(a, b) == a.sec < b.sec \/ (a.sec = b.sec /\ a.ms < b.ms)

\* datetime + timedelta(seconds)
TimePlus(a, seconds) == [sec |-> a.sec + seconds, ms |-> a.ms]

(***************************************************************************)
(* State                                                                   *)
(***************************************************************************)
VARIABLES
    clock,             \* index into Readings: the current instant
    file_storage,      \* main.py file_storage: unique_id -> file_data
    order,             \* the keys of file_storage in the order of the dict
    db,                \* database.py global db: "unset" or "set"
    files_collection,  \* the documents of the MongoDB collection, in insertion order
    disk,              \* files under DOWNLOADS_DIR: path -> size
    runs,              \* the handler runs in flight, one per slot
    events,            \* number of file events received so far
    cmd                \* the last command or library call and its answer

vars == << clock, file_storage, order, db, files_collection, disk, runs, events, cmd >>

Now == Readings[clock]

\* the keys of a dict after an assignment or a del: a key keeps its place
\* while it is in the dict (an assignment to a key already there does not
\* move it), a deleted key leaves, and a new key goes to the end
DictKeys(keys, storage) ==
    LET kept == SelectSeq(keys, LAMBDA id : id \in DOMAIN storage)
        new == DOMAIN storage \ { keys[i] : i \in 1..Len(keys) }
    IN  IF new = {} THEN kept ELSE Append(kept, CHOOSE id \in new : TRUE)

\* int(time.time())
NowSec == Now.sec

\* int(time.time() * 1000) % 1000000
IdModulus == 1000000
UniqueIdAt(t) == ((t.sec % 1000) * 1000 + t.ms) % IdModulus

(***************************************************************************)
(* database.py: FileDatabase                                               *)
(***************************************************************************)
DbRetentionDays == 30
SecondsPerDay == 86400

\* FileDatabase.store_file: the document inserted for file_data (insert_one
\* succeeded), or the collection unchanged (the insert raised, the method
\* returned None)
DbStoreFile(coll, file_data, now, insertOk) ==
    IF insertOk
    THEN Append(coll, [unique_id |-> file_data.unique_id,
                       telegram_file_id |-> file_data.telegram_file_id,
                       telegram_file_unique_id |-> file_data.telegram_file_unique_id,
                       file_name |-> file_data.file_name,
                       file_size |-> file_data.file_size,
                       file_type |-> file_data.file_type,
                       hash |-> file_data.hash,
                       created_at |-> now,
                       expires_at |-> TimePlus(now, DbRetentionDays * SecondsPerDay)])
    ELSE coll

\* the filter of get_file: unique_id, hash and expires_at > now
DbGetMatches(doc, unique_id, hash_value, now) ==
    /\ doc.unique_id = unique_id
    /\ doc.hash = hash_value
    /\ TimeLT(now, doc.expires_at)

\* FileDatabase.get_file: find_one returns the first matching document,
\* << >> stands for None; when find_one raises (findOk is FALSE) the
\* method logs the exception and returns None
DbGetFile(coll, unique_id, hash_value, now, findOk) ==
    LET hits == { i \in 1..Len(coll) : DbGetMatches(coll[i], unique_id, hash_value, now) }
    IN  IF ~findOk \/ hits = {} THEN << >>
        ELSE << coll[CHOOSE i \in hits : \A j \in hits : i <= j] >>

\* the filter of cleanup_expired_files: expires_at < now
DbExpired(doc, now) == TimeLT(doc.expires_at, now)

RECURSIVE SelectDocs(_, _)
SelectDocs(coll, now) ==
    IF coll = << >> THEN << >>
    ELSE IF DbExpired(Head(coll), now) THEN SelectDocs(Tail(coll), now)
    ELSE << Head(coll) >> \o SelectDocs(Tail(coll), now)

\* FileDatabase.cleanup_expired_files: delete_many, returns deleted_count;
\* when delete_many raises (deleteOk is FALSE) nothing is deleted, the
\* method logs the exception and returns 0
DbCleanupExpired(coll, now, deleteOk) ==
    LET kept == SelectDocs(coll, now)
    IN  IF deleteOk
        THEN [coll |-> kept, deleted_count |-> Len(coll) - Len(kept)]
        ELSE [coll |-> coll, deleted_count |-> 0]

(***************************************************************************)
(* main.py: the in-process record map                                      *)
(***************************************************************************)
\* store_file_info_pro.  connectOk: FileDatabase() connects when the global
\* db is still unset; insertOk: insert_one succeeds.  result is
\* << unique_id, file_hash >>, or << >> for (None, None).
store_file_info_pro(f, storage, dbv, coll, now, connectOk, insertOk) ==
    IF ~f.has_id
    THEN \* file_obj.file_id[-10:] raises: the outer handler returns None, None
         [result |-> << >>, storage |-> storage, db |-> dbv, coll |-> coll]
    ELSE
      LET unique_id == UniqueIdAt(now)
          file_hash == FileHash(f.file_id)
          file_data == [unique_id |-> unique_id,
                        telegram_file_id |-> f.file_id,
                        telegram_file_unique_id |-> f.file_unique_id,
                        file_name |-> f.name,
                        file_size |-> f.size,
                        file_type |-> f.type,
                        hash |-> file_hash,
                        created_at |-> now.sec]
      IN  IF dbv = "set" \/ connectOk
          THEN \* get_database() returned; store_file never raises
               [result |-> << unique_id, file_hash >>,
                storage |-> storage,
                db |-> "set",
                coll |-> DbStoreFile(coll, file_data, now, insertOk)]
          ELSE \* get_database() raised: the record goes to the map
               [result |-> << unique_id, file_hash >>,
                storage |-> (unique_id :> file_data) @@ storage,
                db |-> dbv,
                coll |-> coll]

\* the instant the clock readings are counted from: time.time() of the
\* first reading
BaseInstant == 1700000000

\* hashlib.md5(unique_data.encode()).hexdigest()[:10] of line 305, for
\* unique_data = f"{file_id}_{file_unique_id}_{BaseInstant + sec}", tabulated
\* for the files of Files (each file_unique_id goes with one file_id; a
\* file_id of None is formatted as "None") and the seconds of Readings
Md5Table ==
    (<< "uA", 0 >> :> << "1", "c", "a", "6", "f", "4", "4", "b", "8", "a" >>)
    @@ (<< "uA", 1000 >> :> << "b", "4", "c", "4", "8", "b", "f", "c", "9", "9" >>)
    @@ (<< "uA", 86400 >> :> << "d", "8", "2", "e", "e", "5", "5", "d", "d", "9" >>)
    @@ (<< "uA", 86401 >> :> << "8", "5", "a", "8", "3", "8", "0", "a", "7", "4" >>)
    @@ (<< "uA", 2592000 >> :> << "3", "1", "f", "5", "c", "b", "5", "8", "a", "4" >>)
    @@ (<< "uA", 2592001 >> :> << "6", "f", "3", "7", "2", "0", "2", "7", "d", "4" >>)
    @@ (<< "uB", 0 >> :> << "9", "4", "4", "f", "8", "e", "d", "7", "c", "c" >>)
    @@ (<< "uB", 1000 >> :> << "4", "1", "2", "1", "c", "5", "b", "3", "6", "d" >>)
    @@ (<< "uB", 86400 >> :> << "a", "e", "f", "5", "0", "1", "5", "e", "0", "f" >>)
    @@ (<< "uB", 86401 >> :> << "2", "6", "f", "e", "8", "5", "6", "0", "5", "2" >>)
    @@ (<< "uB", 2592000 >> :> << "f", "7", "3", "a", "4", "0", "b", "5", "a", "5" >>)
    @@ (<< "uB", 2592001 >> :> << "3", "2", "2", "8", "4", "5", "f", "9", "b", "c" >>)
    @@ (<< "uC", 0 >> :> << "4", "8", "e", "5", "1", "7", "b", "1", "d", "5" >>)
    @@ (<< "uC", 1000 >> :> << "9", "0", "a", "e", "1", "b", "c", "a", "4", "a" >>)
    @@ (<< "uC", 86400 >> :> << "8", "1", "6", "c", "c", "3", "a", "2", "4", "f" >>)
    @@ (<< "uC", 86401 >> :> << "6", "b", "f", "4", "8", "1", "6", "6", "6", "d" >>)
    @@ (<< "uC", 2592000 >> :> << "a", "2", "6", "e", "3", "0", "9", "a", "c", "3" >>)
    @@ (<< "uC", 2592001 >> :> << "d", "b", "8", "a", "f", "9", "1", "b", "4", "5" >>)
    @@ (<< "uD", 0 >> :> << "b", "c", "d", "8", "5", "6", "4", "7", "4", "7" >>)
    @@ (<< "uD", 1000 >> :> << "8", "d", "f", "b", "c", "0", "c", "5", "0", "c" >>)
    @@ (<< "uD", 86400 >> :> << "9", "3", "4", "b", "e", "6", "b", "9", "f", "7" >>)
    @@ (<< "uD", 86401 >> :> << "0", "7", "a", "3", "3", "f", "8", "e", "d", "c" >>)
    @@ (<< "uD", 2592000 >> :> << "5", "f", "5", "5", "5", "f", "6", "3", "a", "4" >>)
    @@ (<< "uD", 2592001 >> :> << "3", "d", "5", "9", "d", "0", "b", "4", "4", "9" >>)

\* lines 304-305: the hash of store_file_info takes in the file id, the
\* file_unique_id and the second of the call
Md5Hash(f, now) == Md5Table[<< f.file_unique_id, now.sec >>]

\* store_file_info, lines 300-326: the record has no unique_id field and
\* always goes to the map; a file id of None is formatted, not sliced, so
\* nothing raises.  result is << unique_id, file_hash >>.
store_file_info(f, storage, now) ==
    LET file_hash == Md5Hash(f, now)
        unique_id == UniqueIdAt(now)
        file_info == [telegram_file_id |-> f.file_id,
                      telegram_file_unique_id |-> f.file_unique_id,
                      file_name |-> f.name,
                      file_size |-> f.size,
                      file_type |-> f.type,
                      created_at |-> now.sec,
                      hash |-> file_hash]
    IN  [result |-> << unique_id, file_hash >>,
         storage |-> (unique_id :> file_info) @@ storage]

\* a lookup that skips the hash verification
get_file_from_storage_NoHashCheck(storage, file_id, provided_hash) ==
    IF file_id \notin DOMAIN storage THEN << >>
    ELSE << storage[file_id] >>

\* get_file_from_storage: << file_info >>, or << >> for None
get_file_from_storage(storage, file_id, provided_hash) ==
    IF file_id \notin DOMAIN storage THEN << >>
    ELSE IF storage[file_id].hash # provided_hash THEN << >>
    ELSE << storage[file_id] >>

MemRetentionSeconds == 86400

\* a record of exactly 24 hours counted as old
IsOld_AtBoundary(file_info, current_time) ==
    current_time - file_info.created_at >= MemRetentionSeconds

\* the test of cleanup_command: current_time - created_at > 86400
IsOld(file_info, current_time) ==
    current_time - file_info.created_at > MemRetentionSeconds

\* cleanup_command: the ids deleted, and the map afterwards
CleanupStorage(storage, current_time) ==
    LET old_files == { id \in DOMAIN storage : IsOld(storage[id], current_time) }
    IN  [old_files |-> old_files,
         storage |-> [id \in DOMAIN storage \ old_files |-> storage[id]]]

(***************************************************************************)
(* main.py: upload_to_gofile                                               *)
(***************************************************************************)
\* What GET https://api.gofile.io/getServer does: an exception (timeout,
\* connection error), or a response.  json FALSE: the body does not parse;
\* server << >>: data.server is missing.
ServerReplies ==
    { [kind |-> "exception", status_code |-> 0, json |-> FALSE, status |-> "", server |-> << >>],
      [kind |-> "response", status_code |-> 500, json |-> FALSE, status |-> "", server |-> << >>],
      [kind |-> "response", status_code |-> 200, json |-> FALSE, status |-> "", server |-> << >>],
      [kind |-> "response", status_code |-> 200, json |-> TRUE, status |-> "error", server |-> << >>],
      [kind |-> "response", status_code |-> 200, json |-> TRUE, status |-> "ok", server |-> << >>],
      [kind |-> "response", status_code |-> 200, json |-> TRUE, status |-> "ok", server |-> << "store7" >>] }

DefaultServer == "store1"

\* lines 77-87: the server the upload goes to
UploadServer(reply) ==
    IF /\ reply.kind = "response"
       /\ reply.status_code = 200
       /\ reply.json
       /\ reply.status = "ok"
       /\ reply.server # << >>
    THEN reply.server[1]
    ELSE DefaultServer

\* What session.post does: an exception, or a response.  text_empty: the
\* body is empty after strip(); json FALSE: the body does not parse;
\* download_page << >>: data.downloadPage is missing or empty.
PostReplies ==
    { [kind |-> "timeout", status_code |-> 0, text_empty |-> TRUE, json |-> FALSE, status |-> "", download_page |-> << >>],
      [kind |-> "connection_error", status_code |-> 0, text_empty |-> TRUE, json |-> FALSE, status |-> "", download_page |-> << >>],
      [kind |-> "request_exception", status_code |-> 0, text_empty |-> TRUE, json |-> FALSE, status |-> "", download_page |-> << >>],
      [kind |-> "exception", status_code |-> 0, text_empty |-> TRUE, json |-> FALSE, status |-> "", download_page |-> << >>],
      [kind |-> "response", status_code |-> 500, text_empty |-> FALSE, json |-> TRUE, status |-> "ok", download_page |-> << "https://gofile.io/d/x" >>],
      [kind |-> "response", status_code |-> 200, text_empty |-> TRUE, json |-> FALSE, status |-> "", download_page |-> << >>],
      [kind |-> "response", status_code |-> 200, text_empty |-> FALSE, json |-> FALSE, status |-> "", download_page |-> << >>],
      [kind |-> "response", status_code |-> 200, text_empty |-> FALSE, json |-> TRUE, status |-> "error", download_page |-> << "https://gofile.io/d/x" >>],
      [kind |-> "response", status_code |-> 200, text_empty |-> FALSE, json |-> TRUE, status |-> "ok", download_page |-> << >>],
      [kind |-> "response", status_code |-> 200, text_empty |-> FALSE, json |-> TRUE, status |-> "ok", download_page |-> << "https://gofile.io/d/x" >>] }

\* a parser that does not look at the status field of the answer
UploadResult_IgnoresStatus(post) ==
    IF post.kind # "response" THEN [link |-> << >>, branch |-> "unexpected"]
    ELSE IF post.status_code # 200 THEN [link |-> << >>, branch |-> "http"]
    ELSE IF post.text_empty THEN [link |-> << >>, branch |-> "empty"]
    ELSE IF ~post.json THEN [link |-> << >>, branch |-> "malformed"]
    ELSE IF post.download_page = << >> THEN [link |-> << >>, branch |-> "incomplete"]
    ELSE [link |-> post.download_page, branch |-> "ok"]

\* lines 116-163: the value returned for what the POST did and the exit
\* branch taken; << >> stands for None
UploadResult(post) ==
    IF post.kind = "timeout" THEN [link |-> << >>, branch |-> "timeout"]
    ELSE IF post.kind = "connection_error" THEN [link |-> << >>, branch |-> "connection_error"]
    ELSE IF post.kind = "request_exception" THEN [link |-> << >>, branch |-> "request_exception"]
    ELSE IF post.kind = "exception" THEN [link |-> << >>, branch |-> "unexpected"]
    ELSE IF post.status_code # 200 THEN [link |-> << >>, branch |-> "http"]
    ELSE IF post.text_empty THEN [link |-> << >>, branch |-> "empty"]
    ELSE IF ~post.json THEN [link |-> << >>, branch |-> "malformed"]
    ELSE IF post.status # "ok" THEN [link |-> << >>, branch |-> "rejected"]
    ELSE IF post.download_page = << >> THEN [link |-> << >>, branch |-> "incomplete"]
    ELSE [link |-> post.download_page, branch |-> "ok"]

\* an upload that leaves the downloaded file behind
CleanUpFile_Never(files, file_path, removeOk) == files

\* the finally block, lines 164-171: the files under DOWNLOADS_DIR after it.
\* removeOk FALSE: os.remove raises, which is logged.
CleanUpFile(files, file_path, removeOk) ==
    IF file_path # << >> /\ file_path[1] \in DOMAIN files /\ removeOk
    THEN [p \in DOMAIN files \ {file_path[1]} |-> files[p]]
    ELSE files

\* an upload that gives up when the server-selection query fails
upload_to_gofile_ServerFatal(file_path, files, server, post, removeOk, callback, raises) ==
    IF \/ file_path = << >> \/ file_path[1] \notin DOMAIN files
       \/ callback # 0
       \/ server.kind # "response" \/ server.status_code # 200
       \/ ~server.json \/ server.status # "ok" \/ server.server = << >>
    THEN [link |-> << >>, branch |-> "unexpected",
          files |-> CleanUpFile(files, file_path, removeOk),
          gets |-> 1, posts |-> 0, timeout |-> 0, target |-> "",
          progress |-> << >>, raised |-> FALSE]
    ELSE [link |-> UploadResult(post).link, branch |-> UploadResult(post).branch,
          files |-> CleanUpFile(files, file_path, removeOk),
          gets |-> 1, posts |-> 1,
          timeout |-> UploadTimeout(files[file_path[1]]),
          target |-> UploadServer(server),
          progress |-> << "Getting upload server...", "Starting upload...",
                          "Uploading to GoFile..." >>,
          raised |-> FALSE]

\* progress_callback: 0 when it never raises, k when its k-th call raises
\* (lines 74, 90, 101)
CallbackFails == { 0, 1, 2, 3 }

\* the statuses upload_to_gofile hands to progress_callback, in order
ProgressStatuses ==
    << "Getting upload server...", "Starting upload...", "Uploading to GoFile..." >>

\* the exception progress_callback raises when it does: one of requests
\* (Timeout, ConnectionError, another RequestException) or any other
CallbackRaises == { "timeout", "connection_error", "request_exception", "exception" }

\* lines 149-163: the except clause that catches an exception of the given
\* kind raised inside the outer try
ExceptBranch(kind) == IF kind = "exception" THEN "unexpected" ELSE kind

\* upload_to_gofile(file_path, progress_callback).  file_path is << path >>
\* or << >> (None).  callback and raises say what progress_callback does:
\* its callback-th call raises an exception of the kind raises (0: no call
\* raises).  Returns the link, the files left under DOWNLOADS_DIR, and what
\* the call did: server queries, POSTs, the timeout and target of the POST,
\* the statuses handed to progress_callback, whether an exception left the
\* function.
upload_to_gofile(file_path, files, server, post, removeOk, callback, raises) ==
    IF file_path = << >> \/ file_path[1] \notin DOMAIN files
    THEN \* os.path.getsize raises; caught by "except Exception"
         [link |-> << >>, branch |-> "unexpected",
          files |-> CleanUpFile(files, file_path, removeOk),
          gets |-> 0, posts |-> 0, timeout |-> 0, target |-> "",
          progress |-> << >>, raised |-> FALSE]
    ELSE IF callback # 0
    THEN \* the callback raises inside the outer try, before the POST, and
         \* the except clause of its kind catches it.  "except Timeout"
         \* formats the variable timeout (line 151), which is assigned at
         \* line 93, after the first two calls of the callback: for these
         \* the clause itself raises UnboundLocalError, the finally block
         \* runs and the exception leaves the function.
         [link |-> << >>, branch |-> ExceptBranch(raises),
          files |-> CleanUpFile(files, file_path, removeOk),
          gets |-> IF callback = 1 THEN 0 ELSE 1,
          posts |-> 0,
          timeout |-> IF callback = 3 THEN UploadTimeout(files[file_path[1]]) ELSE 0,
          target |-> "",
          progress |-> SubSeq(ProgressStatuses, 1, callback - 1),
          raised |-> raises = "timeout" /\ callback \in { 1, 2 }]
    ELSE LET file_size == files[file_path[1]]
             res == UploadResult(post)
         IN  [link |-> res.link, branch |-> res.branch,
              files |-> CleanUpFile(files, file_path, removeOk),
              gets |-> 1, posts |-> 1,
              timeout |-> UploadTimeout(file_size),
              target |-> UploadServer(server),
              progress |-> ProgressStatuses,
              raised |-> FALSE]

(***************************************************************************)
(* main.py: handle_media and handle_gofile_upload.                         *)
(* A handler runs on the event loop: the code between two awaits is one    *)
(* step.  pc names the awaited call; a step completes it (ok, or it        *)
(* raises) and runs the handler up to its next await.                      *)
(***************************************************************************)
Slots == { "s1" }

\* number of file events the model follows
MaxEvents == 1

\* a limit of 4 GiB instead of 2 GiB
SizeLimit_TooHigh == Bytes(4 * KiB * KiB, 0)

SizeLimit == Bytes(2 * KiB * KiB, 0)    \* 2 * 1024 * 1024 * 1024

IdleRun ==
    [pc |-> "idle",
     file |-> 1,
     verdict |-> "",          \* the size check: "TooLarge" or "Accepted"
     status |-> "",           \* the text of the handler's last edit of the status message
     replies |-> {},          \* the other messages delivered to the user
     reported |-> << >>,      \* the outcomes the user has been shown, in order
     ended |-> "no",          \* "no", "return", or "raise": an exception left the handler
     did |-> {},              \* the collaborators the run has invoked
     entered |-> 0,           \* calls of handle_gofile_upload
     ids |-> << >>,           \* what store_file_info_pro returned
     links |-> << >>,         \* what generate_professional_links returned
     file_path |-> << >>,     \* what message.download returned
     up |-> << >>,            \* what upload_to_gofile did
     progress |-> << >>,      \* the progress edits of the status message, in order
     tasks |-> << >>,         \* the update_progress tasks created and not yet started
     locals |-> << >>,        \* the local variables of a command handler
     caller |-> "handle_media",  \* the handler that calls handle_gofile_upload
     prefix |-> "",           \* the callback data starts with "gf_" or "force_gofile_"
     data |-> << >>,          \* the number that follows the prefix in the callback data
     issued |-> "",           \* the text of the edit of the status message the handler
                              \* issued last: delivered, raised, or still awaited
     original |-> TRUE]       \* callback_query.message.reply_to_message is there

\* The event loop runs one callback after the other.  The update_progress
\* tasks a handler created with bot.loop.create_task (line 842) are queued
\* behind the callbacks that were ready when the handler was resumed, and
\* ahead of everything that becomes ready later.  So between the step that
\* created them and their start, another handler takes at most one step,
\* and none when it had already run in that turn of the loop (it did when
\* its own tasks were waiting: behind).  Handler r may take a step:
Ready(r) ==
    \A q \in DOMAIN runs \ { r } :
        runs[q].tasks # << >>
            => /\ r \notin runs[q].tasks[1].behind
               /\ runs[r].pc = runs[q].tasks[1].seen[r]

\* the outcome o is shown to the user
Report(r, o) ==
    IF r.reported # << >> /\ r.reported[Len(r.reported)] = o
    THEN r.reported
    ELSE Append(r.reported, o)

\* "if unique_id and file_hash"
IdsTruthy(ids) == ids # << >> /\ ids[1] # 0 /\ ids[2] # << >>

\* f"{DOWNLOADS_DIR}/{file_obj.file_unique_id}_{file_name}"
DownloadPath(f) == << f.file_unique_id, f.name >>

\* lines 586-617: a file event arrives; the handler runs up to its first
\* reply_text
Receive(s, f) ==
    /\ runs[s].pc \in { "idle", "done" }
    /\ Ready(s)
    /\ events < MaxEvents
    /\ events' = events + 1
    /\ runs' = [runs EXCEPT ![s] =
                  [IdleRun EXCEPT
                     !.file = f,
                     !.verdict = IF BytesGT(Files[f].size, SizeLimit)
                                 THEN "TooLarge" ELSE "Accepted",
                     !.pc = IF BytesGT(Files[f].size, SizeLimit)
                            THEN "m_reply_toolarge"
                            ELSE "m_reply_status"]]
    /\ UNCHANGED << clock, file_storage, order, db, files_collection, disk, cmd >>

\* lines 602-609
ReplyTooLarge(s, ok) ==
    /\ runs[s].pc = "m_reply_toolarge"
    /\ Ready(s)
    /\ runs' = [runs EXCEPT ![s] =
                  IF ok
                  THEN [@ EXCEPT !.pc = "done", !.ended = "return",
                                 !.replies = @ \cup { "File too large!" },
                                 !.reported = Report(runs[s], "Failed(TooLarge)")]
                  ELSE [@ EXCEPT !.pc = "done", !.ended = "raise"]]
    /\ UNCHANGED << clock, file_storage, order, db, files_collection, disk, events, cmd >>

\* lines 612-630 and 679: the status message is sent; then
\* store_file_info_pro and generate_professional_links run
ReplyStatus(s, ok, connectOk, insertOk) ==
    /\ runs[s].pc = "m_reply_status"
    /\ Ready(s)
    /\ IF ~ok
       THEN /\ runs' = [runs EXCEPT ![s] = [@ EXCEPT !.pc = "done", !.ended = "raise"]]
            /\ UNCHANGED << file_storage, order, db, files_collection >>
       ELSE LET f == Files[runs[s].file]
                st == store_file_info_pro(f, file_storage, db, files_collection,
                                          Now, connectOk, insertOk)
                good == IdsTruthy(st.result)
            IN  /\ file_storage' = st.storage
                /\ order' = DictKeys(order, st.storage)
                /\ db' = st.db
                /\ files_collection' = st.coll
                /\ runs' = [runs EXCEPT ![s] =
                     [@ EXCEPT
                        !.status = "Generating instant links...",
                        !.ids = st.result,
                        !.did = @ \cup { "store" } \cup (IF good THEN { "links" } ELSE {}),
                        !.links = IF good
                                  THEN << generate_professional_links(
                                             st.result[1], st.result[2], f.name) >>
                                  ELSE << >>,
                        !.issued = IF good THEN "Links Generated Successfully!"
                                   ELSE "Falling back to GoFile upload...",
                        !.pc = IF good THEN "m_edit_links" ELSE "m_edit_fallback"]]
    /\ UNCHANGED << clock, disk, events, cmd >>

\* lines 632-641
EditLinks(s, ok) ==
    /\ runs[s].pc = "m_edit_links"
    /\ Ready(s)
    /\ runs' = [runs EXCEPT ![s] =
                  IF ok
                  THEN [@ EXCEPT !.pc = "m_reply_final",
                                 !.status = "Links Generated Successfully!",
                                 !.reported = Report(runs[s], "InstantLinks")]
                  ELSE [@ EXCEPT !.pc = "m_edit_error", !.issued = "Error occurred"]]
    /\ UNCHANGED << clock, file_storage, order, db, files_collection, disk, events, cmd >>

\* lines 673-677
ReplyFinal(s, ok) ==
    /\ runs[s].pc = "m_reply_final"
    /\ Ready(s)
    /\ runs' = [runs EXCEPT ![s] =
                  IF ok
                  THEN [@ EXCEPT !.pc = "done", !.ended = "return",
                                 !.replies = @ \cup { "Stream / Download links" },
                                 !.reported = Report(runs[s], "InstantLinks")]
                  ELSE [@ EXCEPT !.pc = "m_edit_error", !.issued = "Error occurred"]]
    /\ UNCHANGED << clock, file_storage, order, db, files_collection, disk, events, cmd >>

\* lines 680-689 and 788-799: the fallback is announced and
\* handle_gofile_upload is entered
EditFallback(s, ok) ==
    /\ runs[s].pc = "m_edit_fallback"
    /\ Ready(s)
    /\ runs' = [runs EXCEPT ![s] =
                  IF ok
                  THEN [@ EXCEPT !.pc = "g_edit_downloading", !.issued = "Downloading for GoFile upload...",
                                 !.status = "Falling back to GoFile upload...",
                                 !.entered = @ + 1]
                  ELSE [@ EXCEPT !.pc = "m_edit_error", !.issued = "Error occurred"]]
    /\ UNCHANGED << clock, file_storage, order, db, files_collection, disk, events, cmd >>

\* "if current_time - last_update[0] >= 3"
ProgressInterval == 3

\* how long upload_to_gofile blocks, in seconds
UploadSeconds == { 2, 3 }

\* lines 821-836 and 842: the update_progress tasks that upload_to_gofile
\* created with bot.loop.create_task.  upload_to_gofile blocks the event
\* loop, so the tasks start when the handler reaches its next await, at
\* current_time, one after the other: each compares current_time with
\* last_update[0] and awaits its edit_text; last_update[0] is assigned only
\* after that await, when every task has made its comparison.  The result
\* is the edits issued, with their time.
ProgressEdits(statuses, last_update, current_time) ==
    IF current_time - last_update >= ProgressInterval
    THEN [i \in 1..Len(statuses) |-> [status |-> statuses[i], at |-> current_time]]
    ELSE << >>

\* the texts of the final edit of handle_gofile_upload, lines 855 and 863
FinalTexts == { "GoFile Upload Successful!", "GoFile upload failed!" }

\* lines 842-882 and 691-698: the text of the edit of the status message
\* issued last, whether it was delivered or not.  After upload_to_gofile
\* returns, the handler runs on to the await of its final edit (line 855 or
\* 863), which issues that edit; only then, with the handler suspended, do
\* the update_progress tasks start and issue theirs.  The edits of the
\* except branches (lines 876 and 693) are issued after the final edit has
\* raised, when the tasks have issued theirs.
LastWritten(r) ==
    IF r.issued \in FinalTexts /\ r.progress # << >>
    THEN r.progress[Len(r.progress)].status
    ELSE r.issued

\* lines 794-806
GEditDownloading(s, ok) ==
    /\ runs[s].pc = "g_edit_downloading"
    /\ Ready(s)
    /\ runs' = [runs EXCEPT ![s] =
                  IF ok
                  THEN [@ EXCEPT !.pc = "g_download",
                                 !.status = "Downloading for GoFile upload...",
                                 !.did = @ \cup { "download" }]
                  ELSE [@ EXCEPT !.pc = "g_edit_error", !.issued = "Error during GoFile upload"]]
    /\ UNCHANGED << clock, file_storage, order, db, files_collection, disk, events, cmd >>

\* lines 803-818: message.download ends: the file is written ("ok"), the
\* client gives up and returns None ("none"), or it raises ("raise")
GDownload(s, how) ==
    /\ runs[s].pc = "g_download"
    /\ Ready(s)
    /\ LET f == Files[runs[s].file]
           path == DownloadPath(f)
       IN  CASE how = "ok" ->
                  /\ disk' = (path :> f.size) @@ disk
                  /\ runs' = [runs EXCEPT ![s] =
                                [@ EXCEPT !.pc = "g_edit_preparing", !.issued = "Preparing upload...",
                                          !.file_path = << path >>]]
             [] how = "none" ->
                  /\ disk' = disk
                  /\ runs' = [runs EXCEPT ![s] =
                                [@ EXCEPT !.pc = "g_edit_preparing", !.issued = "Preparing upload...",
                                          !.file_path = << >>]]
             [] OTHER ->
                  /\ disk' = disk
                  /\ runs' = [runs EXCEPT ![s] = [@ EXCEPT !.pc = "g_edit_error", !.issued = "Error during GoFile upload"]]
    /\ UNCHANGED << clock, file_storage, order, db, files_collection, events, cmd >>

\* lines 812-870: the status edit ends; upload_to_gofile runs (its requests
\* block the event loop for the given seconds: no other handler runs
\* meanwhile, and the update_progress tasks that wait for their start wait
\* that much longer; a call that raises at os.path.getsize, line 70, makes
\* no request and returns at once), and the handler goes on to the await of
\* its final edit.  The update_progress tasks it created have not started.
GEditPreparing(s, ok, server, post, removeOk, seconds) ==
    /\ runs[s].pc = "g_edit_preparing"
    /\ Ready(s)
    /\ IF ~ok
       THEN /\ runs' = [runs EXCEPT ![s] = [@ EXCEPT !.pc = "g_edit_error", !.issued = "Error during GoFile upload"]]
            /\ disk' = disk
       ELSE LET \* the callback is bot.loop.create_task on the running loop
                u == upload_to_gofile(runs[s].file_path, disk, server, post, removeOk,
                                      0, "exception")
                others == DOMAIN runs \ { s }
                \* the time the requests of lines 80 and 108 took
                blocked == IF u.gets + u.posts = 0 THEN 0 ELSE seconds
                created ==
                    IF u.progress = << >> THEN << >>
                    ELSE << [statuses |-> u.progress,
                             \* time.time() since line 821
                             elapsed |-> blocked,
                             seen |-> [q \in others |-> runs[q].pc],
                             behind |-> { q \in others : runs[q].tasks # << >> }] >>
            IN  /\ disk' = u.files
                /\ runs' = [r \in DOMAIN runs |->
                     IF r = s
                     THEN [runs[s] EXCEPT
                             !.status = "Preparing upload...",
                             !.did = @ \cup { "upload" },
                             !.up = << [link |-> u.link, posts |-> u.posts] >>,
                             !.tasks = created,
                             !.issued = IF u.link # << >> THEN "GoFile Upload Successful!"
                                        ELSE "GoFile upload failed!",
                             !.pc = IF u.link # << >> THEN "g_edit_success"
                                    ELSE "g_edit_failed"]
                     ELSE IF runs[r].tasks = << >> THEN runs[r]
                     ELSE [runs[r] EXCEPT !.tasks[1].elapsed = @ + blocked]]
    /\ UNCHANGED << clock, file_storage, order, db, files_collection, events, cmd >>

\* lines 821-836: the update_progress tasks of run s start, one after the
\* other with nothing between them; each compares the time with
\* last_update[0] (the time of line 821, counted as 0) and issues its edit
GProgressTasks(s) ==
    /\ runs[s].tasks # << >>
    /\ \A q \in runs[s].tasks[1].behind : runs[q].tasks = << >>
    /\ runs' = [runs EXCEPT ![s] =
                  [@ EXCEPT !.progress = ProgressEdits(runs[s].tasks[1].statuses, 0,
                                                       runs[s].tasks[1].elapsed),
                            !.tasks = << >>]]
    /\ UNCHANGED << clock, file_storage, order, db, files_collection, disk, events, cmd >>

\* lines 855-861
GEditSuccess(s, ok) ==
    /\ runs[s].pc = "g_edit_success"
    /\ Ready(s)
    /\ runs[s].tasks = << >>
    /\ runs' = [runs EXCEPT ![s] =
                  IF ok
                  THEN [@ EXCEPT !.pc = "done", !.ended = "return",
                                 !.status = "GoFile Upload Successful!",
                                 !.reported = Report(runs[s], "HostedLink")]
                  ELSE [@ EXCEPT !.pc = "g_edit_error", !.issued = "Error during GoFile upload"]]
    /\ UNCHANGED << clock, file_storage, order, db, files_collection, disk, events, cmd >>

\* lines 863-870
GEditFailed(s, ok) ==
    /\ runs[s].pc = "g_edit_failed"
    /\ Ready(s)
    /\ runs[s].tasks = << >>
    /\ runs' = [runs EXCEPT ![s] =
                  IF ok
                  THEN [@ EXCEPT !.pc = "done", !.ended = "return",
                                 !.status = "GoFile upload failed!",
                                 !.reported = Report(runs[s], "Failed(UploadError)")]
                  ELSE [@ EXCEPT !.pc = "g_edit_error", !.issued = "Error during GoFile upload"]]
    /\ UNCHANGED << clock, file_storage, order, db, files_collection, disk, events, cmd >>

\* lines 872-882: the except branch of handle_gofile_upload; when its own
\* edit raises, the exception reaches the caller: the except branch of
\* handle_media, or handle_callback, which does not catch it
GEditError(s, ok) ==
    /\ runs[s].pc = "g_edit_error"
    /\ Ready(s)
    /\ runs' = [runs EXCEPT ![s] =
                  IF ok
                  THEN [@ EXCEPT !.pc = "done", !.ended = "return",
                                 !.status = "Error during GoFile upload",
                                 !.reported = Report(runs[s], "Failed(UploadError)")]
                  ELSE IF runs[s].caller = "handle_media"
                  THEN [@ EXCEPT !.pc = "m_edit_error", !.issued = "Error occurred"]
                  ELSE \* handle_callback has no try block: the handler ends
                       [@ EXCEPT !.pc = "done", !.ended = "raise"]]
    /\ UNCHANGED << clock, file_storage, order, db, files_collection, disk, events, cmd >>

\* lines 691-698: the except branch of handle_media
MEditError(s, ok) ==
    /\ runs[s].pc = "m_edit_error"
    /\ Ready(s)
    /\ runs' = [runs EXCEPT ![s] =
                  IF ok
                  THEN [@ EXCEPT !.pc = "m_reply_error",
                                 !.status = "Error occurred",
                                 !.reported = Report(runs[s], "Failed(Error)")]
                  ELSE [@ EXCEPT !.pc = "done", !.ended = "raise"]]
    /\ UNCHANGED << clock, file_storage, order, db, files_collection, disk, events, cmd >>

\* line 699
MReplyError(s, ok) ==
    /\ runs[s].pc = "m_reply_error"
    /\ Ready(s)
    /\ runs' = [runs EXCEPT ![s] =
                  IF ok
                  THEN [@ EXCEPT !.pc = "done", !.ended = "return",
                                 !.replies = @ \cup { "Error: {e}" },
                                 !.reported = Report(runs[s], "Failed(Error)")]
                  ELSE [@ EXCEPT !.pc = "done", !.ended = "raise"]]
    /\ UNCHANGED << clock, file_storage, order, db, files_collection, disk, events, cmd >>

(***************************************************************************)
(* main.py: handle_callback, the "GoFile Backup" button (gf_<unique_id>)   *)
(* and the data force_gofile_<message_id>, which no button of this         *)
(* version of the bot carries (a client can still send it).                *)
(***************************************************************************)
\* the runs of handle_callback
CallbackSlots == { "c1" }

\* lines 664-669 and 702-708: the user presses "GoFile Backup" under the
\* final message of run s; the handler runs up to callback_query.answer.
\* original: the message with the buttons still refers to the user's file
\* message.
BackupPressed(c, s, original) ==
    /\ runs[c].pc = "idle"
    /\ Ready(c)
    /\ "Stream / Download links" \in runs[s].replies
    /\ runs' = [runs EXCEPT ![c] =
                  [IdleRun EXCEPT !.file = runs[s].file,
                                  !.caller = "handle_callback",
                                  !.prefix = "gf_",
                                  !.data = << runs[s].ids[1] >>,
                                  !.original = original,
                                  !.pc = "c_answer"]]
    /\ UNCHANGED << clock, file_storage, order, db, files_collection, disk, events, cmd >>

\* lines 731-734: a callback query with the data force_gofile_<message_id>
\* arrives from the final message of run s, the only message the bot sends
\* with buttons (line 673); the handler runs up to callback_query.answer.
\* The number is parsed and not used.
ForcePressed(c, s, original) ==
    /\ runs[c].pc = "idle"
    /\ Ready(c)
    /\ "Stream / Download links" \in runs[s].replies
    /\ runs' = [runs EXCEPT ![c] =
                  [IdleRun EXCEPT !.file = runs[s].file,
                                  !.caller = "handle_callback",
                                  !.prefix = "force_gofile_",
                                  !.data = << 0 >>,
                                  !.original = original,
                                  !.pc = "c_answer"]]
    /\ UNCHANGED << clock, file_storage, order, db, files_collection, disk, events, cmd >>

\* lines 708-729 and 734-749: callback_query.answer ends; with "gf_" the
\* record is looked for, with both prefixes the original message is, and
\* handle_gofile_upload is entered (get_file_info finds the file in the
\* original message: handle_media answered it).  A refusal is an edit the
\* handler awaits: its text is on the message when the edit ends.
CAnswer(c, ok) ==
    /\ runs[c].pc = "c_answer"
    /\ Ready(c)
    /\ runs' = [runs EXCEPT ![c] =
                  IF ~ok
                  THEN [@ EXCEPT !.pc = "done", !.ended = "raise"]
                  ELSE IF runs[c].prefix = "gf_"
                          /\ runs[c].data[1] \notin DOMAIN file_storage
                  THEN [@ EXCEPT !.did = @ \cup { "answer" },
                                 !.pc = "c_edit_refused",
                                 !.issued = "File information not found!"]
                  ELSE IF ~runs[c].original
                  THEN [@ EXCEPT !.did = @ \cup { "answer" },
                                 !.pc = "c_edit_refused",
                                 !.issued = "Original file not found!"]
                  ELSE [@ EXCEPT !.did = @ \cup { "answer" },
                                 !.pc = "g_edit_downloading", !.issued = "Downloading for GoFile upload...",
                                 !.entered = @ + 1]]
    /\ UNCHANGED << clock, file_storage, order, db, files_collection, disk, events, cmd >>

\* lines 712-713, 718-719 and 737-739: the edit that tells the user the
\* backup is refused ends: delivered, or raising (nothing catches it)
CEditRefused(c, ok) ==
    /\ runs[c].pc = "c_edit_refused"
    /\ Ready(c)
    /\ runs' = [runs EXCEPT ![c] =
                  IF ok
                  THEN [@ EXCEPT !.pc = "done", !.ended = "return",
                                 !.status = runs[c].issued,
                                 !.reported = Report(runs[c], "Failed(NotFound)")]
                  ELSE [@ EXCEPT !.pc = "done", !.ended = "raise"]]
    /\ UNCHANGED << clock, file_storage, order, db, files_collection, disk, events, cmd >>

\* the messages whose text embeds the text of the exception caught: the
\* edit of lines 876-882 (str(e)[:100]) and the reply of line 699 ({e})
EmbedsException == { "Error during GoFile upload", "Error: {e}" }

(***************************************************************************)
(* main.py: the commands                                                   *)
(***************************************************************************)
\* the (id, hash) pairs users try: the ids of the first clock readings
\* (0 and 1), an id no upload gets, the hash of the first file and a
\* made-up one
UnknownId == 7
QueryIds == { UniqueIdAt(Readings[1]), UniqueIdAt(Readings[2]), UnknownId }
QueryHashes == { FileHash(FileIdA), << "x" >> }

\* message.text.split() of "/info ...": the words after the command.  The
\* first word is [numeric, value]: int(word) gives value when numeric and
\* raises ValueError otherwise.
InfoArgs ==
    { << >>, << [numeric |-> FALSE, value |-> 0], << "x" >> >> }
      \cup { << [numeric |-> TRUE, value |-> i], h >> : i \in QueryIds, h \in QueryHashes }

\* the reply of file_info_command and of the info_ callback for what the
\* lookup returned
InfoReply(found, file_id, file_hash) ==
    IF found = << >>
    THEN [text |-> "File not found or invalid hash!"]
    ELSE [text |-> "File Information:",
          id |-> file_id,
          name |-> found[1].file_name,
          size |-> format_file_size(found[1].file_size),
          type |-> found[1].file_type,
          hash |-> file_hash,
          created |-> found[1].created_at,
          telegram_id |-> found[1].telegram_file_id]

\* file_info_command, lines 900-935
file_info_command(storage, args) ==
    IF Len(args) < 2
    THEN [found |-> << >>, reply |-> [text |-> "Usage: /info <file_id> <hash>"]]
    ELSE IF ~args[1].numeric
    THEN [found |-> << >>, reply |-> [text |-> "Invalid file ID! Must be a number."]]
    ELSE LET found == get_file_from_storage(storage, args[1].value, args[2])
         IN  [found |-> found, reply |-> InfoReply(found, args[1].value, args[2])]

\* an /info that hands a record out once: the record found is deleted
InfoCommand_PopsRecord(args) ==
    LET res == file_info_command(file_storage, args)
    IN  /\ cmd' = [op |-> "info", at |-> clock, args |-> args] @@ res
        /\ file_storage' = IF res.found = << >> THEN file_storage
                           ELSE [id \in DOMAIN file_storage \ { args[1].value }
                                    |-> file_storage[id]]
        /\ order' = IF res.found = << >> THEN order
                     ELSE SelectSeq(order, LAMBDA id : id # args[1].value)
        /\ UNCHANGED << clock, db, files_collection, disk, runs, events >>

\* /info is sent with the words args
InfoCommand(args) ==
    /\ cmd' = [op |-> "info", at |-> clock, args |-> args]
                 @@ file_info_command(file_storage, args)
    /\ UNCHANGED << clock, file_storage, order, db, files_collection, disk, runs, events >>

\* the user of run s sends /info with the id and hash the bot showed
InfoShown(s) ==
    /\ runs[s].pc = "done"
    /\ "InstantLinks" \in { runs[s].reported[i] : i \in 1..Len(runs[s].reported) }
    /\ InfoCommand(<< [numeric |-> TRUE, value |-> runs[s].ids[1]], runs[s].ids[2] >>)

\* cleanup_command, lines 938-959
CleanupCommand ==
    LET c == CleanupStorage(file_storage, NowSec)
    IN  /\ file_storage' = c.storage
        /\ order' = DictKeys(order, c.storage)
        /\ cmd' = [op |-> "cleanup",
                   at |-> clock,
                   \* what the call before this one removed, when it was a
                   \* sweep
                   prior |-> IF cmd.op = "cleanup"
                             THEN << cmd.reply.removed >> ELSE << >>,
                   \* the map the sweep found
                   before |-> file_storage,
                   reply |-> [text |-> "Cleanup Complete!",
                              removed |-> Cardinality(c.old_files),
                              active |-> Cardinality(DOMAIN c.storage)]]
        /\ UNCHANGED << clock, db, files_collection, disk, runs, events >>

\* time passes: the clock reaches its next reading
Tick ==
    /\ clock < Len(Readings)
    /\ clock' = clock + 1
    /\ UNCHANGED << file_storage, order, db, files_collection, disk, runs, events, cmd >>

(***************************************************************************)
(* The bot: file events, /info, /cleanup                                   *)
(***************************************************************************)
\* lines 53-59: init_database() at startup connects or fails
Init ==
    /\ clock = 1
    /\ file_storage = << >>
    /\ order = << >>
    /\ db \in { "unset", "set" }
    /\ files_collection = << >>
    /\ disk = << >>
    /\ runs = [s \in Slots |-> IdleRun]
    /\ events = 0
    /\ cmd = [op |-> "start"]

DownloadEnds == { "ok", "none", "raise" }

Next ==
    \/ \E s \in Slots, f \in FileIdx : Receive(s, f)
    \/ \E s \in Slots, ok \in BOOLEAN : ReplyTooLarge(s, ok)
    \/ \E s \in Slots, ok, connectOk, insertOk \in BOOLEAN :
          ReplyStatus(s, ok, connectOk, insertOk)
    \/ \E s \in Slots, ok \in BOOLEAN : EditLinks(s, ok)
    \/ \E s \in Slots, ok \in BOOLEAN : ReplyFinal(s, ok)
    \/ \E s \in Slots, ok \in BOOLEAN : EditFallback(s, ok)
    \/ \E s \in Slots, ok \in BOOLEAN : GEditDownloading(s, ok)
    \/ \E s \in Slots, how \in DownloadEnds : GDownload(s, how)
    \/ \E s \in Slots, ok, removeOk \in BOOLEAN, server \in ServerReplies,
          post \in PostReplies, seconds \in UploadSeconds :
             GEditPreparing(s, ok, server, post, removeOk, seconds)
    \/ \E s \in Slots : GProgressTasks(s)
    \/ \E s \in Slots, ok \in BOOLEAN : GEditSuccess(s, ok)
    \/ \E s \in Slots, ok \in BOOLEAN : GEditFailed(s, ok)
    \/ \E s \in Slots, ok \in BOOLEAN : GEditError(s, ok)
    \/ \E s \in Slots, ok \in BOOLEAN : MEditError(s, ok)
    \/ \E s \in Slots, ok \in BOOLEAN : MReplyError(s, ok)
    \/ \E s \in Slots : InfoShown(s)
    \/ Tick

Spec == Init /\ [][Next]_vars

\* The steps of a handler whose awaited call is bounded: the calls of the
\* Telegram API that send or edit a message answer or raise, and
\* upload_to_gofile passes timeout=10 and timeout=timeout to requests
\* (lines 79 and 112).  message.download (line 803) is given no timeout:
\* nothing in the program bounds it.
BoundedStep ==
    \/ \E s \in Slots, ok \in BOOLEAN : ReplyTooLarge(s, ok)
    \/ \E s \in Slots, ok, connectOk, insertOk \in BOOLEAN :
          ReplyStatus(s, ok, connectOk, insertOk)
    \/ \E s \in Slots, ok \in BOOLEAN : EditLinks(s, ok)
    \/ \E s \in Slots, ok \in BOOLEAN : ReplyFinal(s, ok)
    \/ \E s \in Slots, ok \in BOOLEAN : EditFallback(s, ok)
    \/ \E s \in Slots, ok \in BOOLEAN : GEditDownloading(s, ok)
    \/ \E s \in Slots, ok, removeOk \in BOOLEAN, server \in ServerReplies,
          post \in PostReplies, seconds \in UploadSeconds :
             GEditPreparing(s, ok, server, post, removeOk, seconds)
    \/ \E s \in Slots : GProgressTasks(s)
    \/ \E s \in Slots, ok \in BOOLEAN : GEditSuccess(s, ok)
    \/ \E s \in Slots, ok \in BOOLEAN : GEditFailed(s, ok)
    \/ \E s \in Slots, ok \in BOOLEAN : GEditError(s, ok)
    \/ \E s \in Slots, ok \in BOOLEAN : MEditError(s, ok)
    \/ \E s \in Slots, ok \in BOOLEAN : MReplyError(s, ok)

\* the bot with its event loop running: a handler whose awaited call has
\* ended is resumed
SpecLive == Init /\ [][Next]_vars /\ WF_vars(BoundedStep)

(***************************************************************************)
(* The record stores on their own: records are stored as handle_media      *)
(* stores them, users send /info and /cleanup, and the durable store is    *)
(* queried and swept.                                                      *)
(***************************************************************************)
\* number of records the model stores
MaxStores == 2

\* the files whose records are stored: two with different hashes, one
\* without a file id
StoreFiles == { 1, 3, 6 }

\* lines 621-624: the call of store_file_info_pro
StoreCall(f, connectOk, insertOk) ==
    /\ events < MaxStores
    /\ events' = events + 1
    /\ LET st == store_file_info_pro(Files[f], file_storage, db, files_collection,
                                     Now, connectOk, insertOk)
       IN  /\ file_storage' = st.storage
           /\ order' = DictKeys(order, st.storage)
           /\ db' = st.db
           /\ files_collection' = st.coll
           /\ cmd' = [op |-> "store", result |-> st.result]
    /\ UNCHANGED << clock, disk, runs >>

\* a caller of FileDatabase.get_file
DbGetFileCall(unique_id, hash_value, findOk) ==
    /\ db = "set"
    /\ cmd' = [op |-> "db_get", at |-> clock, args |-> << unique_id, hash_value >>,
               ok |-> findOk,
               found |-> DbGetFile(files_collection, unique_id, hash_value, Now, findOk)]
    /\ UNCHANGED << clock, file_storage, order, db, files_collection, disk, runs, events >>

\* a caller of FileDatabase.cleanup_expired_files; prior is what the call
\* before returned, when it was a sweep
DbCleanupCall(deleteOk) ==
    /\ db = "set"
    /\ LET c == DbCleanupExpired(files_collection, Now, deleteOk)
       IN  /\ files_collection' = c.coll
           /\ cmd' = [op |-> "db_cleanup", at |-> clock,
                      prior |-> IF cmd.op = "db_cleanup"
                                THEN << cmd.deleted_count >> ELSE << >>,
                      before |-> files_collection,
                      ok |-> deleteOk,
                      deleted_count |-> c.deleted_count]
    /\ UNCHANGED << clock, file_storage, order, db, disk, runs, events >>

NextStore ==
    \/ \E f \in StoreFiles, connectOk, insertOk \in BOOLEAN :
          StoreCall(f, connectOk, insertOk)
    \/ \E args \in InfoArgs : InfoCommand(args)
    \/ CleanupCommand
    \/ \E i \in QueryIds, h \in QueryHashes, findOk \in BOOLEAN :
          DbGetFileCall(i, h, findOk)
    \/ \E deleteOk \in BOOLEAN : DbCleanupCall(deleteOk)
    \/ Tick

SpecStore == Init /\ [][NextStore]_vars

(***************************************************************************)
(* The stores and their sweeps: records are written, looked up in the map  *)
(* with /info, and swept from the map and from the collection.             *)
(***************************************************************************)
NextSweep ==
    \/ \E f \in StoreFiles, connectOk, insertOk \in BOOLEAN :
          StoreCall(f, connectOk, insertOk)
    \/ \E args \in InfoArgs : InfoCommand(args)
    \/ CleanupCommand
    \/ \E deleteOk \in BOOLEAN : DbCleanupCall(deleteOk)
    \/ Tick

SpecSweep == Init /\ [][NextSweep]_vars

(***************************************************************************)
(* store_file_info, the store of the earlier link scheme: no handler       *)
(* calls it; its callers here are the model's.                             *)
(***************************************************************************)
\* a call of store_file_info with the fields get_file_info gives for file f
StoreInfoCall(f) ==
    /\ events < MaxStores
    /\ events' = events + 1
    /\ LET st == store_file_info(Files[f], file_storage, Now)
       IN  /\ file_storage' = st.storage
           /\ order' = DictKeys(order, st.storage)
           /\ cmd' = [op |-> "store_info", at |-> clock, file |-> f,
                      result |-> st.result]
    /\ UNCHANGED << clock, db, files_collection, disk, runs >>

\* /info is sent with the id and the hash of a record in the map
InfoStored(id) ==
    /\ id \in DOMAIN file_storage
    /\ InfoCommand(<< [numeric |-> TRUE, value |-> id], file_storage[id].hash >>)

NextStoreInfo ==
    \/ \E f \in StoreFiles : StoreInfoCall(f)
    \/ \E id \in QueryIds : InfoStored(id)
    \/ \E args \in InfoArgs : InfoCommand(args)
    \/ CleanupCommand
    \/ Tick

SpecStoreInfo == Init /\ [][NextStoreInfo]_vars

(***************************************************************************)
(* upload_to_gofile on its own: files are downloaded to DOWNLOADS_DIR and  *)
(* uploaded, with every answer of the hosting service.                     *)
(***************************************************************************)
\* the files downloaded for upload: a small one and one of 2 GiB
UploadFiles == { 1, 3 }

\* the paths handed to upload_to_gofile: None, or the download path of a file
UploadPaths == { << >> } \cup { << DownloadPath(Files[f]) >> : f \in UploadFiles }

\* lines 803-806: message.download wrote the file
DownloadCall(f) ==
    /\ disk' = (DownloadPath(Files[f]) :> Files[f].size) @@ disk
    /\ cmd' = [op |-> "download", file_path |-> << DownloadPath(Files[f]) >>]
    /\ UNCHANGED << clock, file_storage, order, db, files_collection, runs, events >>

\* line 842: the call of upload_to_gofile
UploadCall(file_path, server, post, removeOk, callback, raises) ==
    LET u == upload_to_gofile(file_path, disk, server, post, removeOk, callback, raises)
    IN  /\ disk' = u.files
        /\ cmd' = [op |-> "upload",
                   file_path |-> file_path,
                   existed |-> file_path # << >> /\ file_path[1] \in DOMAIN disk,
                   exists |-> file_path # << >> /\ file_path[1] \in DOMAIN u.files,
                   remove_failed |-> ~removeOk,
                   post |-> post,
                   server |-> server,
                   callback |-> callback,
                   raises |-> raises,
                   progress |-> u.progress,
                   link |-> u.link, branch |-> u.branch, raised |-> u.raised,
                   gets |-> u.gets, posts |-> u.posts,
                   timeout |-> u.timeout, target |-> u.target]
        /\ UNCHANGED << clock, file_storage, order, db, files_collection, runs, events >>

NextUpload ==
    \/ \E f \in UploadFiles : DownloadCall(f)
    \/ \E file_path \in UploadPaths, server \in ServerReplies, post \in PostReplies,
          removeOk \in BOOLEAN :
             UploadCall(file_path, server, post, removeOk, 0, "exception")

SpecUpload == Init /\ [][NextUpload]_vars

(***************************************************************************)
(* The timeout of the upload, for files of many sizes                      *)
(***************************************************************************)
\* sizes up to MaxHalfMiB half MiB, one byte less and one byte more, and
\* the sizes the specification names
MaxHalfMiB == 260

MiB1 == Bytes(KiB, 0)
MiB100 == Bytes(100 * KiB, 0)
MiB1800 == Bytes(1800 * KiB, 0)

TimeoutSizes ==
    { Bytes(h * 512, r) : h \in 0..MaxHalfMiB, r \in { 0, 1 } }
      \cup { Bytes(h * 512 + 511, 1023) : h \in 0..MaxHalfMiB }
      \cup { MiB1, MiB100, MiB1800, SizeLimit, Bytes(1953125, 0), Bytes(2929687, 512) }

\* lines 70 and 93: the timeout computed for a file of this size
TimeoutCall(size) ==
    /\ cmd' = [op |-> "timeout", size |-> size, timeout |-> UploadTimeout(size)]
    /\ UNCHANGED << clock, file_storage, order, db, files_collection, disk, runs, events >>

NextTimeout == \E size \in TimeoutSizes : TimeoutCall(size)

SpecTimeout == Init /\ [][NextTimeout]_vars

(***************************************************************************)
(* A file event followed by the "GoFile Backup" button: the run of         *)
(* handle_media, the sweep of /cleanup, and a run of handle_callback.      *)
(***************************************************************************)
\* the files sent: a document, and a file without a file id
BackupFiles == { 1, 6 }

InitCallback ==
    /\ clock = 1
    /\ file_storage = << >>
    /\ order = << >>
    /\ db \in { "unset", "set" }
    /\ files_collection = << >>
    /\ disk = << >>
    /\ runs = [s \in Slots \cup CallbackSlots |-> IdleRun]
    /\ events = 0
    /\ cmd = [op |-> "start"]

NextCallback ==
    \/ \E s \in Slots, f \in BackupFiles : Receive(s, f)
    \/ \E s \in Slots, ok, connectOk, insertOk \in BOOLEAN :
          ReplyStatus(s, ok, connectOk, insertOk)
    \/ \E s \in Slots, ok \in BOOLEAN : EditLinks(s, ok)
    \/ \E s \in Slots, ok \in BOOLEAN : ReplyFinal(s, ok)
    \/ \E s \in Slots, ok \in BOOLEAN : EditFallback(s, ok)
    \/ \E s \in Slots, ok \in BOOLEAN : MEditError(s, ok)
    \/ \E s \in Slots, ok \in BOOLEAN : MReplyError(s, ok)
    \/ \E c \in CallbackSlots, s \in Slots, original \in BOOLEAN :
          BackupPressed(c, s, original)
    \/ \E c \in CallbackSlots, s \in Slots, original \in BOOLEAN :
          ForcePressed(c, s, original)
    \/ \E c \in CallbackSlots, ok \in BOOLEAN : CAnswer(c, ok)
    \/ \E c \in CallbackSlots, ok \in BOOLEAN : CEditRefused(c, ok)
    \/ \E r \in Slots \cup CallbackSlots, ok \in BOOLEAN : GEditDownloading(r, ok)
    \/ \E r \in Slots \cup CallbackSlots, how \in DownloadEnds : GDownload(r, how)
    \/ \E r \in Slots \cup CallbackSlots, ok, removeOk \in BOOLEAN,
          server \in ServerReplies, post \in PostReplies, seconds \in UploadSeconds :
             GEditPreparing(r, ok, server, post, removeOk, seconds)
    \/ \E r \in Slots \cup CallbackSlots : GProgressTasks(r)
    \/ \E r \in Slots \cup CallbackSlots, ok \in BOOLEAN : GEditSuccess(r, ok)
    \/ \E r \in Slots \cup CallbackSlots, ok \in BOOLEAN : GEditFailed(r, ok)
    \/ \E r \in Slots \cup CallbackSlots, ok \in BOOLEAN : GEditError(r, ok)
    \/ CleanupCommand
    \/ Tick

SpecCallback == InitCallback /\ [][NextCallback]_vars

(***************************************************************************)
(* Two presses of "GoFile Backup" under the result of one file event: two  *)
(* runs of handle_callback, and with them two calls of                      *)
(* handle_gofile_upload for the same file, in flight on the event loop.    *)
(***************************************************************************)
\* the runs of handle_callback in flight
TransferSlots == { "t1", "t2" }

\* the files sent
TransferFiles == { 1, 3 }

\* the clock readings the file event is followed through: at the first the
\* unique_id is 0, at the second it is not
TransferReadings == 2

InitTransfer ==
    /\ clock = 1
    /\ file_storage = << >>
    /\ order = << >>
    /\ db \in { "unset", "set" }
    /\ files_collection = << >>
    /\ disk = << >>
    /\ runs = [r \in Slots \cup TransferSlots |-> IdleRun]
    /\ events = 0
    /\ cmd = [op |-> "start"]

\* the GoFile path of the run of handle_media, entered by EditFallback, and
\* its except branch are not followed further here
NextTransfer ==
    \/ \E s \in Slots, f \in TransferFiles : Receive(s, f)
    \/ \E s \in Slots, ok, connectOk, insertOk \in BOOLEAN :
          ReplyStatus(s, ok, connectOk, insertOk)
    \/ \E s \in Slots, ok \in BOOLEAN : EditLinks(s, ok)
    \/ \E s \in Slots, ok \in BOOLEAN : ReplyFinal(s, ok)
    \/ \E s \in Slots, ok \in BOOLEAN : EditFallback(s, ok)
    \/ \E t \in TransferSlots, s \in Slots, original \in BOOLEAN :
          BackupPressed(t, s, original)
    \/ \E t \in TransferSlots, ok \in BOOLEAN : CAnswer(t, ok)
    \/ \E t \in TransferSlots, ok \in BOOLEAN : CEditRefused(t, ok)
    \/ \E t \in TransferSlots, ok \in BOOLEAN : GEditDownloading(t, ok)
    \/ \E t \in TransferSlots, how \in DownloadEnds : GDownload(t, how)
    \/ \E t \in TransferSlots, ok, removeOk \in BOOLEAN,
          server \in ServerReplies, post \in PostReplies, seconds \in UploadSeconds :
             GEditPreparing(t, ok, server, post, removeOk, seconds)
    \/ \E t \in TransferSlots : GProgressTasks(t)
    \/ \E t \in TransferSlots, ok \in BOOLEAN : GEditSuccess(t, ok)
    \/ \E t \in TransferSlots, ok \in BOOLEAN : GEditFailed(t, ok)
    \/ \E t \in TransferSlots, ok \in BOOLEAN : GEditError(t, ok)
    \/ clock < TransferReadings /\ Tick

SpecTransfer == InitTransfer /\ [][NextTransfer]_vars

(***************************************************************************)
(* Properties                                                              *)
(***************************************************************************)
Started(s) == runs[s].pc # "idle"
RunFile(s) == Files[runs[s].file]
Reported(s) == { runs[s].reported[i] : i \in 1..Len(runs[s].reported) }

\* The run was turned away at the size check: nothing was stored, no link
\* built, nothing downloaded or uploaded, no status message created, and
\* the only outcome shown is Failed(TooLarge).
Rejected(s) ==
    /\ runs[s].verdict = "TooLarge"
    /\ runs[s].did = {}
    /\ runs[s].entered = 0
    /\ runs[s].ids = << >> /\ runs[s].links = << >>
    /\ runs[s].status = ""
    /\ runs[s].pc \in { "m_reply_toolarge", "done" }
    /\ Reported(s) \subseteq { "Failed(TooLarge)" }
    /\ (runs[s].pc = "done" /\ runs[s].ended = "return"
          => runs[s].reported = << "Failed(TooLarge)" >>)

\* 2 * 10^9 bytes = 1953125 KiB
TwoBillionBytes == Bytes(1953125, 0)

\* 2147483648 bytes = 2097152 KiB
TwoGiB == Bytes(2097152, 0)

\* C1 as stated: every file event of more than 2 * 10^9 bytes ends
\* Failed(TooLarge) with nothing stored, no links, no download, no upload.
C1_Original ==
    \A s \in Slots :
        Started(s) /\ BytesGT(RunFile(s).size, TwoBillionBytes) => Rejected(s)

\* C1 amended: every file event of more than 2 * 1024^3 = 2147483648 bytes
\* ends Failed(TooLarge) with nothing stored, no links, no download, no
\* upload; a file of exactly that size or less passes the size check.
C1_TooLarge ==
    \A s \in Slots :
        Started(s) =>
            IF BytesGT(RunFile(s).size, TwoGiB)
            THEN Rejected(s)
            ELSE runs[s].verdict = "Accepted"

\* a file one byte over the limit was turned away and the user told
C1_Witness ==
    \E s \in Slots :
        /\ runs[s].pc = "done"
        /\ RunFile(s).size = Bytes(2097152, 1)
        /\ runs[s].reported = << "Failed(TooLarge)" >>

\* the instant of the last command
CmdNow == Readings[cmd.at]

\* /info was sent with a numeric id and a hash
InfoLookup == cmd.op = "info" /\ Len(cmd.args) = 2 /\ cmd.args[1].numeric

\* C2: a lookup returns the record if and only if the id matches a stored
\* record, the hash equals that record's hash and now < expiresAt (created
\* + 24 hours in the in-process map, expires_at in the durable store); a
\* record past its expiry that is still present is not returned.
C2_Lookup ==
    /\ InfoLookup =>
          (cmd.found # << >> <=>
              \E id \in DOMAIN file_storage :
                  /\ id = cmd.args[1].value
                  /\ file_storage[id].hash = cmd.args[2]
                  /\ CmdNow.sec < file_storage[id].created_at + 24 * 3600)
    /\ cmd.op = "db_get" =>
          (cmd.found # << >> <=>
              \E i \in 1..Len(files_collection) :
                  /\ files_collection[i].unique_id = cmd.args[1]
                  /\ files_collection[i].hash = cmd.args[2]
                  /\ TimeLT(CmdNow, files_collection[i].expires_at))

\* the record of run s is in one of the stores
RecordWritten(s) ==
    /\ runs[s].ids # << >>
    /\ \/ runs[s].ids[1] \in DOMAIN file_storage
       \/ \E i \in 1..Len(files_collection) :
             files_collection[i].unique_id = runs[s].ids[1]

\* C3: an accepted file event whose record was written ends InstantLinks
\* with links carrying the record's id and hash, and a later
\* /info <id> <hash>, before expiry, returns the stored name and size.
C3_LinksThenInfo ==
    \A s \in Slots :
        /\ (/\ runs[s].pc = "done" /\ runs[s].ended = "return"
            /\ runs[s].verdict = "Accepted"
            /\ RecordWritten(s))
              => /\ runs[s].reported = << "InstantLinks" >>
                 /\ runs[s].links # << >>
                 /\ runs[s].links[1].id = runs[s].ids[1]
                 /\ runs[s].links[1].hash = runs[s].ids[2]
        /\ (/\ InfoLookup
            /\ RecordWritten(s)
            /\ cmd.args = << [numeric |-> TRUE, value |-> runs[s].ids[1]],
                             runs[s].ids[2] >>
            /\ CmdNow.sec < 24 * 3600)
              => /\ cmd.found # << >>
                 /\ cmd.reply.name = RunFile(s).name
                 /\ cmd.reply.size = format_file_size(RunFile(s).size)

\* C4: when store_file_info_pro or generate_professional_links returns
\* None for an accepted event, handle_gofile_upload is entered exactly once
\* and the run ends HostedLink or Failed, with no second attempt.
C4_FallbackOnce ==
    \A s \in Slots :
        /\ runs[s].entered <= 1
        /\ (/\ runs[s].pc = "done"
            /\ runs[s].verdict = "Accepted"
            /\ "store" \in runs[s].did
            /\ runs[s].ids = << >>)
              => /\ runs[s].entered = 1
                 /\ "InstantLinks" \notin Reported(s)

\* C5: when Telegram gives no server path for the file of an accepted
\* event, no id is allocated, no record is written, no links are built, and
\* the run goes to handle_gofile_upload.
C5_NoPathNoLinks ==
    \A s \in Slots :
        (/\ Started(s)
         /\ runs[s].verdict = "Accepted"
         /\ RunFile(s).server_path = << >>)
           => /\ runs[s].ids = << >>
              /\ runs[s].links = << >>
              /\ "store" \notin runs[s].did
              /\ file_storage = << >>
              /\ files_collection = << >>
              /\ "InstantLinks" \notin Reported(s)
              /\ (runs[s].pc = "done" /\ runs[s].ended = "return"
                    => runs[s].entered = 1)

\* the exit branches of upload_to_gofile
ExitBranches ==
    { "ok", "http", "empty", "malformed", "rejected", "incomplete",
      "timeout", "connection_error", "request_exception", "unexpected" }

\* C6 as stated: on every exit path of upload_to_gofile the local file no
\* longer exists when the call returns, and a failure to delete it is
\* never raised.
C6_Original ==
    cmd.op = "upload" /\ cmd.file_path # << >>
        => /\ cmd.file_path[1] \notin DOMAIN disk
           /\ ~cmd.raised

\* C6 amended: on every exit path of upload_to_gofile the local file no
\* longer exists when the call returns unless os.remove itself failed; in
\* that case the file is left in place.  No exception leaves the call, and
\* no other file is touched.
C6_Cleanup ==
    cmd.op = "upload"
        => /\ cmd.branch \in ExitBranches
           /\ ~cmd.raised
           /\ (cmd.link # << >> <=> cmd.branch = "ok")
           /\ (cmd.file_path # << >> =>
                 (cmd.file_path[1] \in DOMAIN disk
                     <=> cmd.existed /\ cmd.remove_failed))
           /\ \A f \in UploadFiles :
                 << DownloadPath(Files[f]) >> # cmd.file_path
                    => (DownloadPath(Files[f]) \in DOMAIN disk
                           => disk[DownloadPath(Files[f])] = Files[f].size)

\* the hosting service rejected the upload of a downloaded file, and the
\* file is gone
C6_Witness ==
    /\ cmd.op = "upload"
    /\ cmd.branch = "rejected"
    /\ cmd.existed
    /\ ~cmd.remove_failed
    /\ cmd.file_path[1] \notin DOMAIN disk

\* the seconds t are clamp(15 seconds per MiB of size, 300, 1800), the size
\* counted exactly: 15 * bytes / 2^20 is below 300 under 20 MiB, above
\* 1800 over 120 MiB, and in between it is t when 15 * bytes = t * 2^20
IsProportionalClamp(t, size) ==
    IF BytesLT(size, Bytes((300 \div 15) * KiB, 0)) THEN t = 300
    ELSE IF BytesGT(size, Bytes((1800 \div 15) * KiB, 0)) THEN t = 1800
    ELSE size.rem = 0 /\ 15 * size.kib = t * KiB

\* the whole MiB in a size: the w with w MiB <= size < (w + 1) MiB
CompleteMiB(size) ==
    CHOOSE w \in 0..(3 * KiB) :
        /\ BytesLE(Bytes(w * KiB, 0), size)
        /\ BytesLT(size, Bytes((w + 1) * KiB, 0))

\* clamp(15 seconds per complete MiB of size, 300, 1800)
ClampedTimeout(size) ==
    LET per_size == 15 * CompleteMiB(size)
    IN  IF per_size < 300 THEN 300
        ELSE IF per_size > 1800 THEN 1800
        ELSE per_size

\* C7 as stated: for every file size in bytes the upload timeout equals
\* clamp(15 seconds per MiB of size, 300, 1800); it is within [300, 1800],
\* never decreases as the size grows, and is 300 for 1 MiB, 1500 for
\* 100 MiB and 1800 for 1800 MiB.
C7_Original ==
    cmd.op = "timeout"
        => /\ IsProportionalClamp(cmd.timeout, cmd.size)
           /\ cmd.timeout >= 300 /\ cmd.timeout <= 1800
           /\ \A smaller \in TimeoutSizes :
                 BytesLE(smaller, cmd.size) => UploadTimeout(smaller) <= cmd.timeout
           /\ (cmd.size = Bytes(1024, 0) => cmd.timeout = 300)
           /\ (cmd.size = Bytes(102400, 0) => cmd.timeout = 1500)
           /\ (cmd.size = Bytes(1843200, 0) => cmd.timeout = 1800)

\* C7: for every file size in bytes the upload timeout equals clamp(15
\* seconds per complete MiB of size, 300, 1800): the part of the size
\* beyond the last complete MiB adds nothing.  It is within [300, 1800],
\* never decreases as the size grows, and is 300 for 1 MiB, 1500 for
\* 100 MiB and 1800 for 1800 MiB.
C7_Timeout ==
    cmd.op = "timeout"
        => /\ cmd.timeout = ClampedTimeout(cmd.size)
           /\ cmd.timeout >= 300 /\ cmd.timeout <= 1800
           /\ \A smaller \in TimeoutSizes :
                 BytesLE(smaller, cmd.size) => UploadTimeout(smaller) <= cmd.timeout
           /\ (cmd.size = Bytes(1024, 0) => cmd.timeout = 300)
           /\ (cmd.size = Bytes(102400, 0) => cmd.timeout = 1500)
           /\ (cmd.size = Bytes(1843200, 0) => cmd.timeout = 1800)

\* the timeout of a file of 20.5 MiB was computed: 300 seconds, the 15
\* seconds per MiB of its 20 complete MiB (307.5 for the size in full)
C7_Witness ==
    /\ cmd.op = "timeout"
    /\ cmd.size = Bytes(20 * KiB + 512, 0)
    /\ cmd.timeout = 300
    /\ ~IsProportionalClamp(cmd.timeout, cmd.size)

\* C8: a sweep called again after a sweep, with no record written in
\* between, reports 0 removed records and leaves the store unchanged; so
\* for /cleanup on the in-process map and for cleanup_expired_files on the
\* durable store.
C8_SweepTwice ==
    /\ cmd.op = "cleanup" /\ cmd.prior # << >>
          => /\ cmd.reply.removed = 0
             /\ file_storage = cmd.before
             /\ cmd.reply.active = Cardinality(DOMAIN cmd.before)
    /\ cmd.op = "db_cleanup" /\ cmd.prior # << >>
          => /\ cmd.deleted_count = 0
             /\ files_collection = cmd.before

\* the ids of the records /cleanup had to remove: created_at + 24 hours
\* before the instant of the sweep
Expired(storage, now) ==
    { id \in DOMAIN storage : storage[id].created_at + 24 * 3600 < now }

\* C9: /cleanup removes from the in-process map exactly the records with
\* created_at + 24 hours < now and no others; the removed count it reports
\* is the number of records deleted, the active count is the size of the
\* map afterwards, and the two add up to the size of the map before.
C9_Cleanup ==
    cmd.op = "cleanup"
        => LET gone == Expired(cmd.before, CmdNow.sec)
           IN  /\ DOMAIN file_storage = DOMAIN cmd.before \ gone
               /\ \A id \in DOMAIN file_storage : file_storage[id] = cmd.before[id]
               /\ cmd.reply.removed = Cardinality(gone)
               /\ cmd.reply.active = Cardinality(DOMAIN file_storage)
               /\ cmd.reply.removed + cmd.reply.active
                     = Cardinality(DOMAIN cmd.before)

\* /cleanup removed one record and kept a younger one
C9_Witness ==
    /\ cmd.op = "cleanup"
    /\ cmd.reply.removed = 1
    /\ cmd.reply.active = 1
    /\ Cardinality(DOMAIN cmd.before) = 2

\* C10: /info with an unknown id and /info with a known id and a wrong
\* hash give the caller the same result: the lookup returns None and the
\* reply is the same text, with nothing of the record in it.
C10_Indistinguishable ==
    /\ (InfoLookup /\ (\/ cmd.args[1].value \notin DOMAIN file_storage
                       \/ file_storage[cmd.args[1].value].hash # cmd.args[2]))
          => /\ cmd.found = << >>
             /\ cmd.reply = [text |-> "File not found or invalid hash!"]
    /\ \A known \in DOMAIN file_storage, h \in QueryHashes :
          file_storage[known].hash # h
             => \A unknown \in QueryIds \ DOMAIN file_storage :
                   file_info_command(file_storage,
                        << [numeric |-> TRUE, value |-> known], h >>)
                   = file_info_command(file_storage,
                        << [numeric |-> TRUE, value |-> unknown], h >>)

\* /info was sent with the id of a stored record and a wrong hash
C10_Witness ==
    /\ InfoLookup
    /\ cmd.args[1].value \in DOMAIN file_storage
    /\ file_storage[cmd.args[1].value].hash # cmd.args[2]
    /\ cmd.found = << >>

\* the texts run s has put before the user
Shown(s) == runs[s].replies \cup { runs[s].status }

\* handle_gofile_upload called upload_to_gofile and got None
UploadFailed(s) ==
    /\ "upload" \in runs[s].did
    /\ runs[s].up # << >>
    /\ runs[s].up[1].link = << >>

\* C11: when the GoFile upload of a run fails, the run ends
\* Failed(UploadError), never HostedLink, and no message of the run shows
\* the text of an exception.
C11_UploadFailure ==
    \A s \in Slots :
        UploadFailed(s)
            => /\ "HostedLink" \notin Reported(s)
               /\ Shown(s) \cap EmbedsException = {}
               /\ (runs[s].pc = "done" /\ runs[s].ended = "return"
                     => runs[s].reported[Len(runs[s].reported)]
                           = "Failed(UploadError)")

\* the answer to the POST is a fully well-formed success
WellFormedSuccess(post) ==
    /\ post.kind = "response"
    /\ post.status_code = 200
    /\ ~post.text_empty
    /\ post.json
    /\ post.status = "ok"
    /\ post.download_page # << >>

\* C12: upload_to_gofile returns a URL if and only if the answer to the
\* POST has HTTP status 200, a non-empty body that parses as JSON, status
\* "ok" and a non-empty data.downloadPage; the URL returned is that
\* downloadPage; every other answer, and a call that never reaches the
\* POST, returns None.
C12_UrlIffWellFormed ==
    cmd.op = "upload"
        => /\ (cmd.link # << >> <=> cmd.posts = 1 /\ WellFormedSuccess(cmd.post))
           /\ (cmd.link # << >> => cmd.link = cmd.post.download_page)
           /\ (cmd.posts = 1 <=> cmd.existed)

\* GoFile answered with a well-formed success and upload_to_gofile
\* returned its downloadPage
C12_Witness ==
    /\ cmd.op = "upload"
    /\ cmd.posts = 1
    /\ WellFormedSuccess(cmd.post)
    /\ cmd.link = << "https://gofile.io/d/x" >>

\* the terminal outcome a message stands for
OutcomeKind(o) ==
    IF o \in { "InstantLinks", "HostedLink" } THEN o ELSE "Failed"

\* the outcomes run s has reported
OutcomeKinds(s) == { OutcomeKind(o) : o \in Reported(s) }

\* C13: every file event produces exactly one terminal outcome among
\* InstantLinks, HostedLink and Failed: a finished run has reported one,
\* and no run reports two.
C13_OneOutcome ==
    \A s \in Slots :
        /\ Cardinality(OutcomeKinds(s)) <= 1
        /\ (runs[s].pc = "done" => Cardinality(OutcomeKinds(s)) = 1)

\* C14: within one run any two successive progress edits of the status
\* message are at least 3 seconds apart, and an update raised less than 3
\* seconds after the previous edit is dropped, never delivered later.
\* "Getting upload server..." is raised as upload_to_gofile starts, right
\* after the edit announcing the upload.
C14_Throttle ==
    \A s \in Slots :
        /\ \A i \in 1..(Len(runs[s].progress) - 1) :
              runs[s].progress[i + 1].at - runs[s].progress[i].at >= 3
        /\ \A i \in 1..Len(runs[s].progress) :
              runs[s].progress[i].status # "Getting upload server..."

\* C15: once a run has computed its outcome, a failure to send the final
\* message does not change it: a run that reported InstantLinks reports
\* nothing else and never enters handle_gofile_upload, and a run whose
\* upload returned a link never reports a failure.
C15_OutcomeKept ==
    \A s \in Slots :
        /\ "InstantLinks" \in Reported(s)
              => /\ Reported(s) = { "InstantLinks" }
                 /\ runs[s].entered = 0
        /\ (runs[s].up # << >> /\ runs[s].up[1].link # << >>)
              => Reported(s) \subseteq { "HostedLink" }

\* C16: "GoFile Backup" pressed under an InstantLinks result re-enters
\* handle_gofile_upload with the original file, whether or not a record
\* for that unique_id is in a store (absent, swept, or only in the
\* database).
C16_BackupReenters ==
    \A c \in CallbackSlots :
        (/\ runs[c].caller = "handle_callback"
         /\ runs[c].prefix = "gf_"
         /\ "answer" \in runs[c].did
         /\ runs[c].original)
           => /\ runs[c].entered = 1
              /\ runs[c].pc # "c_edit_refused"
              /\ "Failed(NotFound)" \notin Reported(c)

\* run t holds a downloaded file it has not yet handed to upload_to_gofile
HoldsTempFile(t) ==
    runs[t].pc = "g_edit_preparing" /\ runs[t].file_path # << >>

\* C17: when two runs for the same file are in handle_gofile_upload at the
\* same time, each run's temporary file is its own: the two never hold the
\* same path, a file a run holds is on disk until that run uploads it, and
\* every run that downloaded its file uploads it.
C17_OwnTempFile ==
    \A a \in TransferSlots, b \in TransferSlots :
        /\ (a # b /\ HoldsTempFile(a) /\ HoldsTempFile(b))
              => runs[a].file_path # runs[b].file_path
        /\ HoldsTempFile(a) => runs[a].file_path[1] \in DOMAIN disk
        /\ ("upload" \in runs[a].did /\ runs[a].file_path # << >>)
              => runs[a].up[1].posts = 1

\* C18: every run eventually reaches a terminal state, even when the
\* download from Telegram or the upload to GoFile never answers: both
\* waits are bounded by a timeout.
C18_Terminates ==
    \A s \in Slots : Started(s) ~> runs[s].pc = "done"

\* store_file_info_pro returned an id and a hash for run s, and the record
\* is in neither store: insert_one failed and store_file swallowed it
WriteFailed(s) == runs[s].ids # << >> /\ ~RecordWritten(s)

\* the steps of handle_media on the way to the links
LinkSteps == { "m_edit_links", "m_reply_final", "m_edit_error", "m_reply_error", "done" }

\* C19: a failure of the record store write never aborts the run and never
\* triggers the fallback.  What store_file_info_pro returns to a run does
\* not depend on whether the database connects or the insert succeeds; a
\* run whose write failed builds the links from the id and hash, never
\* enters handle_gofile_upload and ends InstantLinks; the later /info for
\* that record finds nothing.
C19_WriteFailure ==
    /\ \A s \in Slots, connectOk \in BOOLEAN, insertOk \in BOOLEAN :
          runs[s].pc = "m_reply_status"
             => store_file_info_pro(RunFile(s), file_storage, db, files_collection,
                                    Now, connectOk, insertOk).result
                = store_file_info_pro(RunFile(s), file_storage, db, files_collection,
                                      Now, TRUE, TRUE).result
    /\ \A s \in Slots :
          WriteFailed(s)
             => /\ runs[s].entered = 0
                /\ runs[s].pc \in LinkSteps
                /\ runs[s].links # << >>
                /\ runs[s].links[1].id = runs[s].ids[1]
                /\ runs[s].links[1].hash = runs[s].ids[2]
                /\ "HostedLink" \notin Reported(s)
                /\ (runs[s].pc = "done" /\ runs[s].ended = "return"
                      => runs[s].reported = << "InstantLinks" >>)
                /\ (InfoLookup /\ cmd.args[1].value = runs[s].ids[1]
                      => cmd.found = << >>)

\* the messages that tell the user of a failure
FailureReports ==
    { "Failed(TooLarge)", "Failed(UploadError)", "Failed(Error)", "Failed(NotFound)" }

\* run r ended in failure: an exception left the handler, or the run
\* reported neither links nor a hosted link
EndedInFailure(r) ==
    /\ runs[r].pc = "done"
    /\ \/ runs[r].ended = "raise"
       \/ Reported(r) \cap { "InstantLinks", "HostedLink" } = {}

\* C20: on every failure path of a run, of a file event or of a backup
\* callback, a failure message is delivered to the user before the run
\* ends; no exception ends a handler with the user told nothing.
C20_FailureReported ==
    \A r \in Slots \cup CallbackSlots :
        EndedInFailure(r) => Reported(r) \cap FailureReports # {}

\* C21: once a record is stored under a unique_id, no later operation
\* changes or replaces what is stored under that unique_id; a record leaves
\* the store only by the expiry sweep or the cleanup command.
C21_NeverMutated ==
    [][/\ \A id \in DOMAIN file_storage :
             IF id \in DOMAIN file_storage'
             THEN file_storage'[id] = file_storage[id]
             ELSE cmd'.op = "cleanup"
       /\ \A i \in 1..Len(files_collection) :
             \/ \E j \in 1..Len(files_collection') :
                   files_collection'[j] = files_collection[i]
             \/ cmd'.op = "db_cleanup"]_vars

\* the server-selection query failed: it raised (timeout, connection
\* error), answered with a status other than 200, with a body that does
\* not parse, with a status other than "ok", or without data.server
ServerQueryFailed(reply) ==
    \/ reply.kind = "exception"
    \/ reply.status_code # 200
    \/ ~reply.json
    \/ reply.status # "ok"
    \/ reply.server = << >>

\* C22: any failure of the server-selection query leaves the upload target
\* at the default server store1 and the upload proceeds: the POST is made,
\* and the call returns what the answer to the POST alone decides.
C22_ServerFallback ==
    cmd.op = "upload" /\ cmd.existed /\ ServerQueryFailed(cmd.server)
        => /\ cmd.target = "store1"
           /\ cmd.gets = 1 /\ cmd.posts = 1
           /\ ~cmd.raised
           /\ cmd.link = IF WellFormedSuccess(cmd.post)
                         THEN cmd.post.download_page ELSE << >>

\* the server query timed out and the upload still returned its link
C22_Witness ==
    /\ cmd.op = "upload"
    /\ cmd.server.kind = "exception"
    /\ cmd.target = "store1"
    /\ cmd.link = << "https://gofile.io/d/x" >>

(***************************************************************************)
(* upload_to_gofile with a progress callback that may raise                *)
(***************************************************************************)
\* the answers of the server query followed here: the query raises, or it
\* names a server
ProgressServers == { r \in ServerReplies : r.kind = "exception" \/ r.server # << >> }

\* the answers to the POST followed when the callback raises (the POST is
\* then never made): a timeout, and the well-formed success
ProgressPosts ==
    { p \in PostReplies : p.kind = "timeout" \/ WellFormedSuccess(p) }

NextProgress ==
    \/ \E f \in UploadFiles : DownloadCall(f)
    \/ \E file_path \in UploadPaths, server \in ProgressServers, post \in PostReplies,
          removeOk \in BOOLEAN :
             UploadCall(file_path, server, post, removeOk, 0, "exception")
    \/ \E file_path \in UploadPaths, server \in ProgressServers, post \in ProgressPosts,
          removeOk \in BOOLEAN, callback \in CallbackFails \ { 0 },
          raises \in CallbackRaises :
             UploadCall(file_path, server, post, removeOk, callback, raises)

SpecProgress == Init /\ [][NextProgress]_vars

\* the call failed before or at its POST: the file is not there, the
\* callback raised, or the answer to the POST is not a well-formed success
CallFailed ==
    \/ ~cmd.existed
    \/ cmd.callback # 0
    \/ ~WellFormedSuccess(cmd.post)

\* C23: one call of upload_to_gofile makes at most one POST, none after a
\* failure, and every failure, an exception of the progress callback
\* included, comes back to the caller as None: no exception leaves the
\* function.
C23_OneAttempt ==
    cmd.op = "upload"
        => /\ cmd.posts <= 1
           /\ (cmd.callback # 0 => cmd.posts = 0)
           /\ (CallFailed => cmd.link = << >>)
           /\ ~cmd.raised

\* the record of (unique_id, hash) is in the in-process map or in the
\* durable store
RecordStored(ids) ==
    \/ /\ ids[1] \in DOMAIN file_storage
       /\ file_storage[ids[1]].hash = ids[2]
    \/ \E i \in 1..Len(files_collection) :
          /\ files_collection[i].unique_id = ids[1]
          /\ files_collection[i].hash = ids[2]

\* C24: when store_file_info_pro has returned a (unique_id, hash) pair, the
\* record is in at least one of the two stores: a record the durable store
\* did not take (database unavailable, insert failed) is in the in-process
\* map.
C24_StoredSomewhere ==
    cmd.op = "store" /\ cmd.result # << >> => RecordStored(cmd.result)

\* the (platform file id, hash) pairs of the records in the two stores
HashPairs ==
    { << file_storage[id].telegram_file_id, file_storage[id].hash >> :
         id \in DOMAIN file_storage }
      \cup { << files_collection[i].telegram_file_id, files_collection[i].hash >> :
                i \in 1..Len(files_collection) }

\* C26: the hash of a record is a function of the platform file id alone:
\* any two records created from the same platform file id, at whatever
\* times, carry the same hash.
C26_HashOfFileId ==
    \A p, q \in HashPairs : p[1] = q[1] => p[2] = q[2]

\* C27: within one run of handle_gofile_upload the final message (upload
\* successful, upload failed) is the last text written to the status
\* message: no progress update raised during the upload is written after it.
C27_FinalIsLast ==
    \A s \in Slots :
        runs[s].pc = "done" /\ runs[s].status \in FinalTexts
            => LastWritten(runs[s]) = runs[s].status

\* C28: handle_media falls back to the GoFile path only when the record or
\* the links could not be made: whenever store_file_info_pro returned a
\* unique_id (any value from 0 to 999999) with its hash, the links are
\* built, handle_gofile_upload is never called, and the run, its messages
\* delivered, ends InstantLinks.
C28_FallbackOnlyOnFailure ==
    \A s \in Slots :
        runs[s].ids # << >>
            => /\ runs[s].links # << >>
               /\ runs[s].entered = 0
               /\ runs[s].pc # "m_edit_fallback"
               /\ (runs[s].pc = "done" /\ runs[s].ended = "return"
                      /\ "Failed(Error)" \notin Reported(s)
                     => runs[s].reported = << "InstantLinks" >>)

(***************************************************************************)
(* Two file events in flight, and /info sent with the id and hash a run    *)
(* showed: the runs of handle_media interleave at their awaits.            *)
(***************************************************************************)
\* the runs of handle_media in flight
MediaSlots == { "u1", "u2" }

\* the files sent: two files whose ids end alike in their first bytes, so
\* that their hashes are equal
MediaFiles == { 1, 2 }

\* lines 586-617: a file event arrives while another may be in flight
Arrive(u, f) ==
    /\ runs[u].pc = "idle"
    /\ Ready(u)
    /\ runs' = [runs EXCEPT ![u] =
                  [IdleRun EXCEPT
                     !.file = f,
                     !.verdict = IF BytesGT(Files[f].size, SizeLimit)
                                 THEN "TooLarge" ELSE "Accepted",
                     !.pc = IF BytesGT(Files[f].size, SizeLimit)
                            THEN "m_reply_toolarge"
                            ELSE "m_reply_status"]]
    /\ UNCHANGED << clock, file_storage, order, db, files_collection, disk, events, cmd >>

\* the clock readings the runs are followed through: the second and the
\* third give the same unique_id
MediaReadings == 3

InitMedia ==
    /\ clock = 1
    /\ file_storage = << >>
    /\ order = << >>
    /\ db \in { "unset", "set" }
    /\ files_collection = << >>
    /\ disk = << >>
    /\ runs = [u \in MediaSlots |-> IdleRun]
    /\ events = 0
    /\ cmd = [op |-> "start"]

\* the GoFile path, entered by EditFallback, is not followed further here
NextMedia ==
    \/ \E u \in MediaSlots, f \in MediaFiles : Arrive(u, f)
    \/ \E u \in MediaSlots, ok, connectOk, insertOk \in BOOLEAN :
          ReplyStatus(u, ok, connectOk, insertOk)
    \/ \E u \in MediaSlots, ok \in BOOLEAN : EditLinks(u, ok)
    \/ \E u \in MediaSlots, ok \in BOOLEAN : ReplyFinal(u, ok)
    \/ \E u \in MediaSlots, ok \in BOOLEAN : EditFallback(u, ok)
    \/ \E u \in MediaSlots, ok \in BOOLEAN : MEditError(u, ok)
    \/ \E u \in MediaSlots, ok \in BOOLEAN : MReplyError(u, ok)
    \/ \E u \in MediaSlots : InfoShown(u)
    \/ clock < MediaReadings /\ Tick

SpecMedia == InitMedia /\ [][NextMedia]_vars

\* run u showed its user the pair /info was last sent with
IssuedTo(u) ==
    /\ "InstantLinks" \in Reported(u)
    /\ runs[u].ids = << cmd.args[1].value, cmd.args[2] >>

\* C29: /info with the (unique_id, hash) pair shown for an upload never
\* returns the record of another upload: under every interleaving of
\* uploads, two uploads with the same time-derived unique_id included, the
\* record found is that of the upload the pair was shown for, or nothing
\* is found.
C29_OwnRecord ==
    InfoLookup /\ cmd.found # << >>
        => \A u \in MediaSlots :
              IssuedTo(u)
                 => /\ cmd.found[1].telegram_file_id = RunFile(u).file_id
                    /\ cmd.found[1].file_name = RunFile(u).name
                    /\ cmd.found[1].file_size = RunFile(u).size

(***************************************************************************)
(* The handlers on the event loop, line by line: runs of handle_media      *)
(* store records, runs of cleanup_command sweep the map and runs of        *)
(* file_info_command look records up, all in flight at the same time.  A   *)
(* handler keeps the loop from one await to the next.                      *)
(***************************************************************************)
\* the runs of cleanup_command and of file_info_command in flight
SweepSlots == { "k1" }
InfoSlots == { "i1" }

\* the file sent
LoopFiles == { 1 }

\* the clock readings the handlers are followed through: records of the
\* first readings are older than 24 hours at the fifth
LoopReadings == 5

\* the words of /info: a word that is no number, and the id of the first
\* reading with the hash of the file
LoopArgs ==
    { << [numeric |-> FALSE, value |-> 0], << "x" >> >>,
      << [numeric |-> TRUE, value |-> UniqueIdAt(Readings[1])], FileHash(FileIdA) >> }

\* the places of a handler between two lines that no await separates:
\* inside the loop of cleanup_command (lines 945-949), and in
\* get_file_from_storage between the test of line 366 and the read of
\* line 369
Synchronous == { "k_loop", "i_read" }

\* handlers that give way after every line, as threads do
LoopFree_Preemptive == TRUE

\* The event loop resumes a handler only when the handler that runs has
\* reached an await; the loop of cleanup_command and get_file_from_storage
\* hold none.
LoopFree == \A r \in DOMAIN runs : runs[r].pc \notin Synchronous

\* lines 938-945: /cleanup arrives; current_time is read and
\* list(file_storage.items()) copies the items of the map
CleanupEnter(k) ==
    /\ runs[k].pc = "idle"
    /\ Ready(k)
    /\ LET items == [j \in 1..Len(order) |->
                       [file_id |-> order[j], file_info |-> file_storage[order[j]]]]
       IN  runs' = [runs EXCEPT ![k] =
                      [IdleRun EXCEPT
                         !.caller = "cleanup_command",
                         !.locals = << [current_time |-> NowSec,
                                        items |-> items,
                                        at |-> 1,
                                        old_files |-> << >>,
                                        failed |-> FALSE,
                                        reply |-> [removed |-> 0,
                                                   active |-> Len(order)]] >>,
                         !.pc = IF items = << >> THEN "k_reply" ELSE "k_loop"]]
    /\ UNCHANGED << clock, file_storage, order, db, files_collection, disk, events, cmd >>

\* lines 945-956: one turn of the loop.  An old record is appended to
\* old_files and deleted from the map; the del of a key that is not in the
\* map raises KeyError, which the except branch of line 958 catches.  After
\* the last turn the text of the reply is made, with len(old_files) and
\* len(file_storage).
CleanupVisit(k) ==
    /\ runs[k].pc = "k_loop"
    /\ LET L == runs[k].locals[1]
           item == L.items[L.at]
           old == IsOld(item.file_info, L.current_time)
           gone == item.file_id \notin DOMAIN file_storage
           storage == IF old /\ ~gone
                      THEN [id \in DOMAIN file_storage \ { item.file_id } |-> file_storage[id]]
                      ELSE file_storage
           old_files == IF old THEN Append(L.old_files, item.file_id) ELSE L.old_files
       IN  /\ file_storage' = storage
           /\ order' = DictKeys(order, storage)
           /\ runs' = [runs EXCEPT ![k] =
                IF old /\ gone
                THEN [@ EXCEPT !.pc = "k_reply_error",
                               !.locals = << [L EXCEPT !.old_files = old_files,
                                                       !.failed = TRUE] >>]
                ELSE IF L.at = Len(L.items)
                THEN [@ EXCEPT !.pc = "k_reply",
                               !.locals = << [L EXCEPT
                                  !.old_files = old_files,
                                  !.at = @ + 1,
                                  !.reply = [removed |-> Len(old_files),
                                             active |-> Cardinality(DOMAIN storage)]] >>]
                ELSE [@ EXCEPT !.locals = << [L EXCEPT !.old_files = old_files,
                                                       !.at = @ + 1] >>]]
    /\ UNCHANGED << clock, db, files_collection, disk, events, cmd >>

\* lines 951-956: the reply ends; when it raises, the except branch replies
CleanupReply(k, ok) ==
    /\ runs[k].pc = "k_reply"
    /\ Ready(k)
    /\ runs' = [runs EXCEPT ![k] =
                  IF ok
                  THEN [@ EXCEPT !.pc = "done", !.ended = "return", !.locals = << >>,
                                 !.replies = @ \cup { "Cleanup Complete!" }]
                  ELSE [@ EXCEPT !.pc = "k_reply_error"]]
    /\ UNCHANGED << clock, file_storage, order, db, files_collection, disk, events, cmd >>

\* lines 958-959: the reply of the except branch ends
CleanupReplyError(k, ok) ==
    /\ runs[k].pc = "k_reply_error"
    /\ Ready(k)
    /\ runs' = [runs EXCEPT ![k] =
                  IF ok
                  THEN [@ EXCEPT !.pc = "done", !.ended = "return", !.locals = << >>,
                                 !.replies = @ \cup { "Cleanup error: {e}" }]
                  ELSE [@ EXCEPT !.pc = "done", !.ended = "raise", !.locals = << >>]]
    /\ UNCHANGED << clock, file_storage, order, db, files_collection, disk, events, cmd >>

\* lines 901-916 and 363-367: /info arrives with the words args; the words
\* are counted, the id is parsed, and get_file_from_storage tests whether
\* the id is in the map
InfoEnter(i, args) ==
    /\ runs[i].pc = "idle"
    /\ Ready(i)
    /\ LET L == [args |-> args, found |-> << >>, failed |-> FALSE,
                 reply |-> file_info_command(<< >>, args).reply]
       IN  runs' = [runs EXCEPT ![i] =
                      [IdleRun EXCEPT
                         !.caller = "file_info_command",
                         !.locals = << L >>,
                         !.pc = IF Len(args) < 2 THEN "i_reply"
                                ELSE IF ~args[1].numeric THEN "i_reply_error"
                                ELSE IF args[1].value \notin DOMAIN file_storage
                                THEN "i_reply"
                                ELSE "i_read"]]
    /\ UNCHANGED << clock, file_storage, order, db, files_collection, disk, events, cmd >>

\* lines 369-380 and 918-930: get_file_from_storage reads the record and
\* compares the hash; the read of a key that is not in the map raises
\* KeyError, which line 378 catches: None is returned
InfoRead(i) ==
    /\ runs[i].pc = "i_read"
    /\ LET L == runs[i].locals[1]
           gone == L.args[1].value \notin DOMAIN file_storage
           found == IF gone THEN << >>
                    ELSE get_file_from_storage(file_storage, L.args[1].value, L.args[2])
       IN  runs' = [runs EXCEPT ![i] =
                      [@ EXCEPT !.pc = "i_reply",
                                !.locals = << [L EXCEPT
                                   !.found = found,
                                   !.failed = gone,
                                   !.reply = InfoReply(found, L.args[1].value,
                                                       L.args[2])] >>]]
    /\ UNCHANGED << clock, file_storage, order, db, files_collection, disk, events, cmd >>

\* how an awaited reply_text ends: it returns, it raises ValueError (the
\* client does for a peer it cannot resolve), or it raises another
\* exception
ReplyEnds == { "ok", "value_error", "exception" }

\* lines 906-911 and 919-930: a reply inside the try block ends; when it
\* raises, the except branch of its class replies: line 932 for a
\* ValueError, line 934 for any other exception
InfoAnswer(i, how) ==
    /\ runs[i].pc = "i_reply"
    /\ Ready(i)
    /\ runs' = [runs EXCEPT ![i] =
                  IF how = "ok"
                  THEN [@ EXCEPT !.pc = "done", !.ended = "return", !.locals = << >>,
                                 !.replies = @ \cup { runs[i].locals[1].reply.text }]
                  ELSE IF how = "value_error"
                  THEN [@ EXCEPT !.pc = "i_reply_error",
                                 !.locals[1].reply =
                                     [text |-> "Invalid file ID! Must be a number."]]
                  ELSE [@ EXCEPT !.pc = "i_reply_error",
                                 !.locals[1].reply = [text |-> "Error: {e}"]]]
    /\ UNCHANGED << clock, file_storage, order, db, files_collection, disk, events, cmd >>

\* lines 932-935: the reply of an except branch ends
InfoAnswerError(i, ok) ==
    /\ runs[i].pc = "i_reply_error"
    /\ Ready(i)
    /\ runs' = [runs EXCEPT ![i] =
                  IF ok
                  THEN [@ EXCEPT !.pc = "done", !.ended = "return", !.locals = << >>,
                                 !.replies = @ \cup { runs[i].locals[1].reply.text }]
                  ELSE [@ EXCEPT !.pc = "done", !.ended = "raise", !.locals = << >>]]
    /\ UNCHANGED << clock, file_storage, order, db, files_collection, disk, events, cmd >>

InitLoop ==
    /\ clock = 1
    /\ file_storage = << >>
    /\ order = << >>
    /\ db \in { "unset", "set" }
    /\ files_collection = << >>
    /\ disk = << >>
    /\ runs = [r \in MediaSlots \cup SweepSlots \cup InfoSlots |-> IdleRun]
    /\ events = 0
    /\ cmd = [op |-> "start"]

\* a handler is resumed when the loop is free; the handler that holds the
\* loop goes on.  The runs of handle_media are followed up to the await
\* after the store.
NextLoop ==
    \/ LoopFree /\ \E u \in MediaSlots, f \in LoopFiles : Arrive(u, f)
    \/ LoopFree /\ \E u \in MediaSlots, ok, connectOk, insertOk \in BOOLEAN :
                      ReplyStatus(u, ok, connectOk, insertOk)
    \/ LoopFree /\ \E k \in SweepSlots : CleanupEnter(k)
    \/ \E k \in SweepSlots : CleanupVisit(k)
    \/ LoopFree /\ \E k \in SweepSlots, ok \in BOOLEAN : CleanupReply(k, ok)
    \/ LoopFree /\ \E k \in SweepSlots, ok \in BOOLEAN : CleanupReplyError(k, ok)
    \/ LoopFree /\ \E i \in InfoSlots, args \in LoopArgs : InfoEnter(i, args)
    \/ \E i \in InfoSlots : InfoRead(i)
    \/ LoopFree /\ \E i \in InfoSlots, how \in ReplyEnds : InfoAnswer(i, how)
    \/ LoopFree /\ \E i \in InfoSlots, ok \in BOOLEAN : InfoAnswerError(i, ok)
    \/ clock < LoopReadings /\ Tick

SpecLoop == InitLoop /\ [][NextLoop]_vars

\* the map cleanup_command copied at line 945
Copied(items) ==
    [id \in { items[j].file_id : j \in 1..Len(items) } |->
        items[CHOOSE j \in 1..Len(items) : items[j].file_id = id].file_info]

\* the ids of the records of a map that are older than 24 hours at now
OldIn(storage, now) ==
    { id \in DOMAIN storage : storage[id].created_at + 24 * 3600 < now }

\* the elements of a sequence
Range(seq) == { seq[j] : j \in 1..Len(seq) }

\* C25: puts, gets and sweeps on the in-process map are serialized: with
\* handlers that store, look up and sweep in flight at the same time, at
\* most one of them is inside an operation on the map, and each operation
\* runs to its end on the map as it found it.  While a sweep is in its
\* loop the map is the map it copied less the old records it has visited;
\* the sweep never fails on a record, and its reply counts each record
\* older than 24 hours of the map it found once and every other record as
\* active.  A lookup that found its id in the map reads that record.
C25_Serialized ==
    /\ Cardinality({ r \in DOMAIN runs : runs[r].pc \in Synchronous }) <= 1
    /\ \A k \in SweepSlots :
          runs[k].locals # << >>
             => LET L == runs[k].locals[1]
                    found == Copied(L.items)
                    visited == { L.items[j].file_id : j \in 1..(L.at - 1) }
                IN  /\ ~L.failed
                    /\ Len(L.old_files) = Cardinality(Range(L.old_files))
                    /\ Range(L.old_files) = OldIn(found, L.current_time) \cap visited
                    /\ runs[k].pc = "k_loop"
                          => file_storage
                             = [id \in DOMAIN found \ Range(L.old_files) |-> found[id]]
                    /\ runs[k].pc # "k_loop"
                          => /\ visited = DOMAIN found
                             /\ L.reply.removed
                                = Cardinality(OldIn(found, L.current_time))
                             /\ L.reply.active
                                = Cardinality(DOMAIN found) - L.reply.removed
    /\ \A i \in InfoSlots :
          /\ runs[i].pc = "i_read"
                => runs[i].locals[1].args[1].value \in DOMAIN file_storage
          /\ runs[i].locals # << >> => ~runs[i].locals[1].failed

\* a sweep that found two records removed the old one and counted the
\* other; it awaits its reply, and with it in flight are the run of
\* handle_media that stored the other record and a lookup
C25_Witness ==
    \E k \in SweepSlots, u \in MediaSlots, i \in InfoSlots :
        /\ runs[k].pc = "k_reply"
        /\ runs[k].locals[1].reply = [removed |-> 1, active |-> 1]
        /\ runs[u].pc = "m_edit_links"
        /\ runs[u].ids[1] \in DOMAIN file_storage
        /\ runs[i].pc = "i_reply"

(***************************************************************************)
(* main.py: /stats, and the read-only commands next to the stores          *)
(***************************************************************************)
\* a + b on byte counts
BytesAdd(a, b) ==
    Bytes(a.kib + b.kib + (a.rem + b.rem) \div KiB, (a.rem + b.rem) % KiB)

\* total_size += file_info['file_size'] over the records of the map
RECURSIVE TotalSize(_, _)
TotalSize(storage, ids) ==
    IF ids = {} THEN Bytes(0, 0)
    ELSE LET id == CHOOSE i \in ids : \A j \in ids : i <= j
         IN  BytesAdd(storage[id].file_size, TotalSize(storage, ids \ { id }))

\* "[:5]" of line 499
RecentCount == 5

\* the sequence keys without its i-th element
Without(keys, i) == SubSeq(keys, 1, i - 1) \o SubSeq(keys, i + 1, Len(keys))

\* sorted(user_files, key=lambda x: x['created_at'], reverse=True), as the
\* keys of the records; keys is the order of the dict, in which the loop
\* of lines 485-487 fills user_files.  The sort is stable, with reverse
\* too: records of the same second keep the order they have in keys.
RECURSIVE SortedByCreated(_, _)
SortedByCreated(storage, keys) ==
    IF keys = << >> THEN << >>
    ELSE LET i == CHOOSE i \in 1..Len(keys) :
                     /\ \A j \in 1..Len(keys) :
                           storage[keys[i]].created_at >= storage[keys[j]].created_at
                     /\ \A j \in 1..(i - 1) :
                           storage[keys[j]].created_at < storage[keys[i]].created_at
         IN  << keys[i] >> \o SortedByCreated(storage, Without(keys, i))

\* stats_command, lines 478-508: the reply.  recent is the list under
\* "Recent Files", in order: the first five records of the sort, one line
\* each with the first 30 characters of the name and the formatted size.
stats_command(storage, keys) ==
    IF keys = << >>
    THEN [text |-> "No uploads yet!"]
    ELSE LET recent_files == FirstN(SortedByCreated(storage, keys), RecentCount)
         IN  [text |-> "Your Upload Statistics:",
              total_files |-> Len(keys),
              total_size |-> format_file_size(TotalSize(storage, DOMAIN storage)),
              last_upload |-> CHOOSE t \in { storage[id].created_at : id \in DOMAIN storage } :
                                 \A id \in DOMAIN storage : storage[id].created_at <= t,
              recent |-> [i \in 1..Len(recent_files) |->
                            [name |-> FirstN(storage[recent_files[i]].file_name, 30),
                             size |-> format_file_size(storage[recent_files[i]].file_size)]]]

\* /stats is sent
StatsCommand ==
    /\ cmd' = [op |-> "stats", at |-> clock, reply |-> stats_command(file_storage, order)]
    /\ UNCHANGED << clock, file_storage, order, db, files_collection, disk, runs, events >>

NextRead ==
    \/ \E f \in StoreFiles, connectOk, insertOk \in BOOLEAN :
          StoreCall(f, connectOk, insertOk)
    \/ \E args \in InfoArgs : InfoCommand(args)
    \/ StatsCommand
    \/ Tick

SpecRead == Init /\ [][NextRead]_vars

\* C30: the read-only operations leave the record store as it was: a step
\* that is an /info lookup (record found, unknown id, wrong hash, wrong
\* usage) or a /stats request leaves the in-process map with the same keys
\* and the same values, and the durable store untouched.
C30_ReadOnly ==
    [][cmd'.op \in { "info", "stats" }
          => /\ DOMAIN file_storage' = DOMAIN file_storage
             /\ \A id \in DOMAIN file_storage : file_storage'[id] = file_storage[id]
             /\ files_collection' = files_collection]_vars

\* /info found a record in a map of two records, and both are still there
C30_Witness ==
    /\ cmd.op = "info"
    /\ cmd.found # << >>
    /\ Cardinality(DOMAIN file_storage) = 2

====
